---- MODULE Spec2Model ----
(***************************************************************************)
(* A model of dcmtrans: the series reconstruction engine                   *)
(* (reconstruction.py), the transform registry (base.py) and the pipeline  *)
(* orchestrator (dcmtrans.py) with the stages it runs (modality_trans.py,  *)
(* voi_trans.py, pi_trans.py, trans_method.py, ct_window.py).              *)
(*                                                                         *)
(* Conventions.  A Python value that may be None is a sequence of length   *)
(* at most one: None is <<>> and the value x is <<x>>.  A 3- or 6-vector   *)
(* attribute that may be missing is the vector itself or <<>>.  A raised   *)
(* exception is a result whose status names the exception class.           *)
(* Lengths are integers: positions in mm, inter-slice spacings in units of *)
(* 1e-4 mm, pixel spacings in units of 1e-4 mm.                            *)
(***************************************************************************)
EXTENDS Integers, Sequences, FiniteSets, TLC

VARIABLES
    dicom_dict,     \* reconstruct_series: the input mapping, in insertion order (key = position)
    modality,       \* reconstruct_series: the caller's modality override
    rec_out,        \* reconstruct_series: what the call returned or raised
    collection,     \* BaseTransManager.collection: mode -> handler
    retired,        \* BaseTransManager.retired: mode -> bool
    experimental,   \* BaseTransManager.experimental: mode -> bool
    warned,         \* the warnings the last registry call emitted, in order
    reg_call,       \* the last registry call and what it returned
    trans_in,       \* dcmtrans: the arguments of the call
    trans_out,      \* dcmtrans: what the call returned or raised
    fn_call,        \* a call of one transformation function: its name and arguments
    fn_result       \* what that call returned or raised

vars == <<dicom_dict, modality, rec_out, collection, retired, experimental,
          warned, reg_call, trans_in, trans_out, fn_call, fn_result>>

recon_vars == <<dicom_dict, modality, rec_out>>
registry_vars == <<collection, retired, experimental, warned, reg_call>>
trans_vars == <<trans_in, trans_out>>
fn_vars == <<fn_call, fn_result>>

---------------------------------------------------------------------------
(* Bounds of the model *)

MaxInst == 3                \* records in one series
MaxIndex == MaxInst + 1     \* largest InstanceNumber

---------------------------------------------------------------------------
(* Python values *)

None == <<>>
Some(x) == <<x>>
IsNone(o) == o = <<>>
Val(o) == o[1]

Abs(x) == IF x < 0 THEN -x ELSE x

RECURSIVE SortSet(_)
SortSet(S) ==
    IF S = {} THEN <<>>
    ELSE LET m == CHOOSE x \in S : \A y \in S : x <= y
         IN  <<m>> \o SortSet(S \ {m})

Range(s) == {s[i] : i \in DOMAIN s}

NotRun == [status |-> "not run"]

---------------------------------------------------------------------------
(* reconstruction.py: reconstruct_series and _recon_ct *)

Raise(exc, msg) == [status |-> exc, msg |-> msg]

classify(dcmObj) == dcmObj.Modality

\* mutant of Upper: the override is used as given
Upper_as_given(s) == s

\* str.upper() on the modality codes the model uses
Upper(s) ==
    CASE s = "ct" -> "CT"
      [] s = "cr" -> "CR"
      [] s = "dx" -> "DX"
      [] s = "mr" -> "MR"
      [] OTHER -> s

\* {int(x.InstanceNumber): unikey for unikey, x in dicom_dict.items() if ...}:
\* a later record with the same InstanceNumber replaces an earlier one
build_index_map(d) ==
    LET withIndex == {k \in DOMAIN d : ~IsNone(d[k].InstanceNumber)}
        idxs == {Val(d[k].InstanceNumber) : k \in withIndex}
    IN  [i \in idxs |->
            CHOOSE k \in withIndex :
                /\ Val(d[k].InstanceNumber) = i
                /\ \A k2 \in withIndex : Val(d[k2].InstanceNumber) = i => k2 <= k]

Dot3(a, oa, b, ob) == a[oa+1]*b[ob+1] + a[oa+2]*b[ob+2] + a[oa+3]*b[ob+3]

\* the determinant-like cross term of two orientation vectors
cross_term(iop1, iop2) ==
    (Dot3(iop1, 0, iop2, 0) * Dot3(iop1, 3, iop2, 3))
      - (Dot3(iop1, 0, iop2, 3) * Dot3(iop1, 3, iop2, 0))

\* mutant of discard_first: the first instance is never discarded
discard_never(iop1, iop2) == FALSE

\* abs(dot) < 0.1
discard_first(iop1, iop2) == 10 * Abs(cross_term(iop1, iop2)) < 1

\* mutant of triple_product: the projection on column x row
triple_product_reversed(dp, iop) ==
      dp[1]*iop[3]*iop[5] + dp[2]*iop[1]*iop[6] + dp[3]*iop[2]*iop[4]
    - dp[1]*iop[2]*iop[6] - dp[2]*iop[3]*iop[4] - dp[3]*iop[1]*iop[5]

\* the displacement projected on row x column of the orientation iop
triple_product(dp, iop) ==
      dp[1]*iop[2]*iop[6] + dp[2]*iop[3]*iop[4] + dp[3]*iop[1]*iop[5]
    - dp[1]*iop[3]*iop[5] - dp[2]*iop[1]*iop[6] - dp[3]*iop[2]*iop[4]

SqNorm(dp) == dp[1]*dp[1] + dp[2]*dp[2] + dp[3]*dp[3]

RECURSIVE ISqrtIn(_, _, _)
ISqrtIn(x, lo, hi) ==
    IF lo >= hi THEN lo
    ELSE LET mid == (lo + hi + 1) \div 2
         IN  IF mid * mid <= x THEN ISqrtIn(x, mid, hi) ELSE ISqrtIn(x, lo, mid - 1)

\* round(spacing*1e4) for spacing = sqrt(d2) mm: the stored spacing in units of 1e-4 mm
round_spacing(d2) ==
    LET x == d2 * 100000000
        r == ISqrtIn(x, 0, 46340)
    IN  IF x - r * r > r THEN r + 1 ELSE r

\* Python's round(p / 10): half to even
round_half_even(p, q) ==
    LET f == p \div q
        r == p % q
    IN  IF 2 * r < q THEN f
        ELSE IF 2 * r > q THEN f + 1
        ELSE IF f % 2 = 0 THEN f ELSE f + 1

\* mutant of ct_pair: the index difference of the pair is not checked
ct_pair_any_step(index_list, iop_list, ipp_list, i, acc) ==
    LET ind1 == index_list[i]
        ind0 == index_list[i-1]
        dp == [j \in 1..3 |-> ipp_list[i][j] - ipp_list[i-1][j]]
        d2 == dp[1]*dp[1] + dp[2]*dp[2] + dp[3]*dp[3]
        tmp_dot == triple_product(dp, iop_list[i-1])
    IN  IF 100000000 * d2 < 1
        THEN [acc EXCEPT !.warnings = Append(@, <<"spacing is 0", ind0, ind1>>)]
        ELSE IF 10000 * tmp_dot * tmp_dot < 9801 * d2
        THEN [acc EXCEPT !.okay = FALSE,
                         !.msglist = Append(@, <<"do not aligned", ind0, ind1>>)]
        ELSE [acc EXCEPT !.chirality_list = Append(@, tmp_dot > 0),
                         !.spacing_list = Append(@, d2)]

\* one pass of the loop body over the pair (index_list[i-1], index_list[i])
ct_pair(index_list, iop_list, ipp_list, i, acc) ==
    LET ind1 == index_list[i]
        ind0 == index_list[i-1]
        iop == iop_list[i-1]
        dp == [j \in 1..3 |-> ipp_list[i][j] - ipp_list[i-1][j]]
        d2 == SqNorm(dp)
        tmp_dot == triple_product(dp, iop)
    IN  IF (ind1 - ind0) # 1
        THEN [acc EXCEPT !.okay = FALSE,
                         !.msglist = Append(@, <<"index jump", ind0, ind1>>)]
        ELSE IF 100000000 * d2 < 1
        THEN [acc EXCEPT !.warnings = Append(@, <<"spacing is 0", ind0, ind1>>)]
        ELSE IF 10000 * tmp_dot * tmp_dot < 9801 * d2
        THEN [acc EXCEPT !.okay = FALSE,
                         !.msglist = Append(@, <<"do not aligned", ind0, ind1>>)]
        ELSE [acc EXCEPT !.chirality_list = Append(@, tmp_dot > 0),
                         !.spacing_list = Append(@, d2)]

RECURSIVE ct_walk(_, _, _, _, _)
ct_walk(index_list, iop_list, ipp_list, i, acc) ==
    IF i > Len(index_list) THEN acc
    ELSE ct_walk(index_list, iop_list, ipp_list, i + 1,
                 ct_pair(index_list, iop_list, ipp_list, i, acc))

\* the value of chirality after lines 307-313
ct_chirality(chirality_list) ==
    LET chirality == IF Len(chirality_list) = 0 THEN None
                     ELSE Some(chirality_list[1])
    IN  IF chirality = Some(TRUE) THEN 1 ELSE -1

\* mutant of k_like: coronal is tried before axial
k_like_coronal_first == << <<"coronal", <<0,1,0>> >>, <<"axial", <<0,0,1>> >>, <<"sagittal", <<1,0,0>> >> >>
k_like == << <<"axial", <<0,0,1>> >>, <<"coronal", <<0,1,0>> >>, <<"sagittal", <<1,0,0>> >> >>

RECURSIVE ct_series_like(_, _)
ct_series_like(iop, n) ==
    IF n > Len(k_like) THEN "other"
    ELSE IF /\ 10 * Abs(Dot3(iop, 0, k_like[n][2], 0)) < 1
            /\ 10 * Abs(Dot3(iop, 3, k_like[n][2], 0)) < 1
         THEN k_like[n][1]
         ELSE ct_series_like(iop, n + 1)

Msg(text) == << <<text>> >>

\* mutant of rec_info: the index-to-record map keeps the record of a discarded instance
rec_info_all_records(d, index_map, index_data_dict, index_list, chirality, spacing_slice, series_like, ipp, iop) ==
    LET first == index_data_dict[index_list[1]]
        agent == first.ContrastBolusAgent
    IN  [status |-> "ok",
         index_list |-> index_list,
         index_map |-> index_map,
         index_dicom_dict |-> [i \in DOMAIN build_index_map(d) |-> d[build_index_map(d)[i]]],
         chirality |-> chirality,
         series_like |-> series_like,
         use_contrast |-> ~(IsNone(agent) \/ agent = Some("")),
         N_pixel_i |-> first.Rows,
         N_pixel_j |-> first.Columns,
         spacing_i |-> first.PixelSpacing[2],
         spacing_j |-> first.PixelSpacing[1],
         spacing_slice |-> spacing_slice,
         PixelSpacing |-> first.PixelSpacing,
         ImagePositionPatient |-> ipp,
         ImageOrientationPatient |-> iop]
\* lines 196-224: the contrast flag and the RecInfo that is returned
rec_info(d, index_map, index_data_dict, index_list, chirality, spacing_slice, series_like, ipp, iop) ==
    LET first == index_data_dict[index_list[1]]
        agent == first.ContrastBolusAgent
    IN  [status |-> "ok",
         index_list |-> index_list,
         index_map |-> index_map,
         index_dicom_dict |-> [i \in DOMAIN index_map |-> d[index_map[i]]],
         chirality |-> chirality,
         series_like |-> series_like,
         use_contrast |-> ~(IsNone(agent) \/ agent = Some("")),
         N_pixel_i |-> first.Rows,
         N_pixel_j |-> first.Columns,
         spacing_i |-> first.PixelSpacing[2],
         spacing_j |-> first.PixelSpacing[1],
         spacing_slice |-> spacing_slice,
         PixelSpacing |-> first.PixelSpacing,
         ImagePositionPatient |-> ipp,
         ImageOrientationPatient |-> iop]

\* lines 251-338 of _recon_ct: the checks after the leading-slice discard
recon_ct_checks(index_map, index_data_dict, index_list) ==
    LET recs == {index_data_dict[k] : k \in DOMAIN index_data_dict}
    IN  IF Cardinality({x.Columns : x \in recs}) > 1
        THEN Raise("AssertionError", Msg("Columns of images mismatch"))
        ELSE IF Cardinality({x.Rows : x \in recs}) > 1
        THEN Raise("AssertionError", Msg("Rows of images mismatch"))
        ELSE IF Cardinality({round_half_even(x.PixelSpacing[1], 10) : x \in recs}) > 1
        THEN Raise("AssertionError", Msg("PixelSpacing of columns mismatch"))
        ELSE IF Cardinality({round_half_even(x.PixelSpacing[2], 10) : x \in recs}) > 1
        THEN Raise("AssertionError", Msg("PixelSpacing of columns mismatch"))
        ELSE IF \E k \in DOMAIN index_list :
                    IsNone(index_data_dict[index_list[k]].ImageOrientationPatient)
        THEN Raise("AttributeError", Msg("ImageOrientationPatient"))
        ELSE
        LET iop_list == [k \in DOMAIN index_list |->
                            index_data_dict[index_list[k]].ImageOrientationPatient]
            ipp_list == [k \in DOMAIN index_list |->
                            index_data_dict[index_list[k]].ImagePositionPatient]
            acc == ct_walk(index_list, iop_list, ipp_list, 2,
                           [okay |-> TRUE, msglist |-> <<>>, warnings |-> <<>>,
                            chirality_list |-> <<>>, spacing_list |-> <<>>])
        IN  IF ~acc.okay
            THEN Raise("AssertionError", acc.msglist)
            ELSE IF Cardinality(Range(acc.chirality_list)) > 1
            THEN Raise("AssertionError", Msg("Direction (Chirality) of images mismatch"))
            ELSE [status |-> "ok",
                  index_data_dict |-> index_data_dict,
                  index_list |-> index_list,
                  index_map |-> index_map,
                  chirality |-> ct_chirality(acc.chirality_list),
                  spacing_slice |-> {round_spacing(x) : x \in Range(acc.spacing_list)},
                  series_like |-> ct_series_like(iop_list[1], 1),
                  image_orientation_patient |-> iop_list[1],
                  image_position_patient |-> ipp_list,
                  warnings |-> acc.warnings]

\* mutant of recon_ct: the geometry of a discarded first instance is checked too
recon_ct_geometry_of_all(index_map, index_data_dict, index_list) ==
    LET iop1 == index_data_dict[index_list[1]].ImageOrientationPatient
        iop2 == index_data_dict[index_list[2]].ImageOrientationPatient
        all == recon_ct_checks(index_map, index_data_dict, index_list)
    IN  IF IsNone(iop1) \/ IsNone(iop2)
        THEN Raise("AssertionError", Msg("ImageOrientationPatient not found"))
        ELSE IF discard_first(iop1, iop2)
        THEN IF /\ all.status = "AssertionError"
                /\ all.msg \in {Msg("Columns of images mismatch"),
                                Msg("Rows of images mismatch"),
                                Msg("PixelSpacing of columns mismatch")}
             THEN all
             ELSE LET rest == DOMAIN index_map \ {index_list[1]}
                  IN  recon_ct_checks([k \in rest |-> index_map[k]],
                                      [k \in rest |-> index_data_dict[k]],
                                      SortSet(rest))
        ELSE all

\* lines 227-249 of _recon_ct: the first two orientations and the leading-slice discard
recon_ct(index_map, index_data_dict, index_list) ==
    LET iop1 == index_data_dict[index_list[1]].ImageOrientationPatient
        iop2 == index_data_dict[index_list[2]].ImageOrientationPatient
    IN  IF IsNone(iop1) \/ IsNone(iop2)
        THEN Raise("AssertionError", Msg("ImageOrientationPatient not found"))
        ELSE IF discard_first(iop1, iop2)
        THEN LET rest == DOMAIN index_map \ {index_list[1]}
             IN  recon_ct_checks([k \in rest |-> index_map[k]],
                                 [k \in rest |-> index_data_dict[k]],
                                 SortSet(rest))
        ELSE recon_ct_checks(index_map, index_data_dict, index_list)

\* lines 155-166: a CR series
recon_cr(d, index_map, index_data_dict, index_list) ==
    IF Len(index_list) = 0
    THEN Raise("AssertionError", Msg("No instance was found"))
    ELSE IF Len(index_list) > 1
    THEN Raise("AssertionError", Msg("Modality \"CR\": Multiple instances were found."))
    ELSE rec_info(d, index_map, index_data_dict, index_list, None, None,
                  index_data_dict[index_list[1]].ViewPosition, None, None)

\* mutant of recon_dx: of several instances the first is taken
recon_dx_first_of_many(d, index_map, index_data_dict, index_list) ==
    IF Len(index_list) = 0
    THEN Raise("AssertionError", Msg("No instance was found"))
    ELSE rec_info(d, index_map, index_data_dict, index_list, None, None,
                  None, None, None)

\* lines 167-178: a DX series
recon_dx(d, index_map, index_data_dict, index_list) ==
    IF Len(index_list) = 0
    THEN Raise("AssertionError", Msg("No instance was found"))
    ELSE IF Len(index_list) > 1
    THEN Raise("AssertionError", Msg("Modality \"DX\": Multiple instances were found."))
    ELSE rec_info(d, index_map, index_data_dict, index_list, None, None,
                  None, None, None)

\* lines 179-190: a CT series
recon_ct_series(d, index_map, index_data_dict, index_list) ==
    IF Len(index_list) < 2
    THEN Raise("AssertionError",
               Msg("Cannot be reconstructed: Number of CT images less than 2"))
    ELSE LET res == recon_ct(index_map, index_data_dict, index_list)
         IN  IF res.status # "ok" THEN res
             ELSE rec_info(d, res.index_map, res.index_data_dict, res.index_list,
                           Some(res.chirality), Some(res.spacing_slice),
                           Some(res.series_like), Some(res.image_position_patient),
                           Some(res.image_orientation_patient))

\* lines 155-194: the dispatch on the modality mod
recon_dispatch(d, mod, index_map, index_data_dict, index_list) ==
    IF mod = Some("CR") THEN recon_cr(d, index_map, index_data_dict, index_list)
    ELSE IF mod = Some("DX") THEN recon_dx(d, index_map, index_data_dict, index_list)
    ELSE IF mod = Some("CT") THEN recon_ct_series(d, index_map, index_data_dict, index_list)
    ELSE Raise("NotImplementedError", Msg("No reconstruction methods"))

\* lines 132-153: the index map and the modality of the series
reconstruct_series(d, m) ==
    LET index_map == build_index_map(d)
        index_data_dict == [i \in DOMAIN index_map |-> d[index_map[i]]]
        index_list == SortSet(DOMAIN index_map)
        mod_list == {classify(d[k]) : k \in DOMAIN d}
    IN  IF IsNone(m) /\ Cardinality(mod_list) > 1
        THEN Raise("AssertionError", Msg("Multiple Modality were found"))
        ELSE IF IsNone(m) /\ mod_list = {}
        THEN Raise("IndexError", Msg("list index out of range"))
        ELSE recon_dispatch(d,
                            IF IsNone(m) THEN CHOOSE x \in mod_list : TRUE
                                         ELSE Some(Upper(Val(m))),
                            index_map, index_data_dict, index_list)

---------------------------------------------------------------------------
(* base.py: BaseTransManager, with the classifier of PITransManager *)

\* the modes and handlers registered, and the photometric interpretations of records
Modes == {"MONOCHROME1", "YBR_ICT"}
Handlers == {"pi_first", "pi_second"}
PISet == {None, Some("MONOCHROME1"), Some("YBR_ICT"), Some("PALETTE COLOR")}

\* a dict keyed by mode: None where the key is absent
EmptyTable == [m \in Modes |-> None]
TableGet(table, mode) ==
    IF ~IsNone(mode) /\ Val(mode) \in DOMAIN table THEN table[Val(mode)] ELSE None

\* PITransManager.get_mode
pi_get_mode(dcmObj) == dcmObj.PhotometricInterpretation

\* mutant of register: an existing mode is overwritten whatever skip_if_exists says
register_always_overwrite(coll, ret, exp, mode, func, is_retired, skip_if_exists, is_experimental) ==
    [collection |-> [coll EXCEPT ![mode] = Some(func)],
     retired |-> [ret EXCEPT ![mode] = Some(is_retired)],
     experimental |-> [exp EXCEPT ![mode] = Some(is_experimental)],
     warned |-> IF ~IsNone(coll[mode])
                THEN IF skip_if_exists THEN << <<"Skip", Some(mode)>> >>
                                       ELSE << <<"Overwrite", Some(mode)>> >>
                ELSE <<>>,
     result |-> func]

\* BaseTransManager.register(mode, retired, skip_if_exists, experimental)(func)
register(coll, ret, exp, mode, func, is_retired, skip_if_exists, is_experimental) ==
    IF ~IsNone(coll[mode]) /\ skip_if_exists
    THEN [collection |-> coll, retired |-> ret, experimental |-> exp,
          warned |-> << <<"Skip", Some(mode)>> >>,
          result |-> func]
    ELSE [collection |-> [coll EXCEPT ![mode] = Some(func)],
          retired |-> [ret EXCEPT ![mode] = Some(is_retired)],
          experimental |-> [exp EXCEPT ![mode] = Some(is_experimental)],
          warned |-> IF ~IsNone(coll[mode]) THEN << <<"Overwrite", Some(mode)>> >>
                                           ELSE <<>>,
          result |-> func]

\* mutant of get_func: the retired warning is left out
get_func_no_retired_warning(coll, ret, exp, dcmObj) ==
    LET mode == pi_get_mode(dcmObj)
        func == TableGet(coll, mode)
    IN  [warned |-> (IF IsNone(func) THEN << <<"not implemented", mode>> >> ELSE <<>>)
                    \o (IF TableGet(exp, mode) = Some(TRUE)
                        THEN << <<"experimental", mode>> >> ELSE <<>>),
         result |-> <<mode, func>>]

\* BaseTransManager.get_func(dcmObj)
get_func(coll, ret, exp, dcmObj) ==
    LET mode == pi_get_mode(dcmObj)
        func == TableGet(coll, mode)
    IN  [warned |-> (IF IsNone(func) THEN << <<"not implemented", mode>> >> ELSE <<>>)
                    \o (IF TableGet(ret, mode) = Some(TRUE)
                        THEN << <<"retired", mode>> >> ELSE <<>>)
                    \o (IF TableGet(exp, mode) = Some(TRUE)
                        THEN << <<"experimental", mode>> >> ELSE <<>>),
         result |-> <<mode, func>>]

\* the order of Python's string comparison on the mode strings
StrRank(s) == CASE s = "MONOCHROME1" -> 1 [] s = "YBR_ICT" -> 2

\* sorted(keys): the keys by ascending string order
RECURSIVE sorted_keys(_)
sorted_keys(keys) ==
    IF keys = {} THEN <<>>
    ELSE LET least == CHOOSE m \in keys : \A k \in keys : StrRank(m) <= StrRank(k)
         IN  <<least>> \o sorted_keys(keys \ {least})

\* mutant of modes: the keys by descending string order
modes_descending(coll) ==
    LET up == sorted_keys({m \in DOMAIN coll : ~IsNone(coll[m])})
    IN  [k \in DOMAIN up |-> up[Len(up) + 1 - k]]
\* BaseTransManager.modes
modes(coll) == sorted_keys({m \in DOMAIN coll : ~IsNone(coll[m])})

---------------------------------------------------------------------------
(* The series given to reconstruct_series *)

IopAxial == <<1, 0, 0, 0, 1, 0>>
IopDegenerate == <<0, 0, 0, 1, 0, 0>>
IopSet == {IopAxial, IopDegenerate}
PosSet == {<<0, 0, 0>>, <<0, 0, 1>>, <<0, 0, 2>>, <<1, 0, 0>>}
ModSet == {Some("CT"), Some("CR"), Some("DX"), Some("MR"), None}
OverrideSet == {None, Some("ct"), Some("CR"), Some("mr")}

\* rows, columns and pixel spacing (in 1e-4 mm): the second and third differ from the
\* first in rows and in columns, the fourth in a pixel spacing that rounds to the same
\* 0.001 mm, the fifth in one that does not
Geom(rows, columns, spacing) == [Rows |-> rows, Columns |-> columns, PixelSpacing |-> spacing]
GeomBase == Geom(2, 2, <<5000, 5000>>)
GeomSet == {GeomBase, Geom(3, 2, <<5000, 5000>>), Geom(2, 3, <<5000, 5000>>),
            Geom(2, 2, <<5004, 5000>>), Geom(2, 2, <<5000, 5006>>)}

Record(index, mod, iop, ipp, geom) ==
    [InstanceNumber |-> index, Modality |-> mod,
     ImageOrientationPatient |-> iop, ImagePositionPatient |-> ipp,
     Rows |-> geom.Rows, Columns |-> geom.Columns, PixelSpacing |-> geom.PixelSpacing,
     ContrastBolusAgent |-> None, ViewPosition |-> Some("PA")]

\* a CT series: n records with the instance indices 1..n, record k with the
\* orientation g[k][1] and the position g[k][2]
CTSeries(n, g) ==
    [k \in 1..n |-> Record(Some(k), Some("CT"), g[k][1], g[k][2], GeomBase)]

\* a CT series of an axial stack: n records with the instance indices S (|S| = n),
\* the first with the orientation iop1, the last with the orientation iopn and the
\* others axial, record k with the geometry g[k]
GeomSeries(n, S, iop1, iopn, g) ==
    [k \in 1..n |-> Record(Some(SortSet(S)[k]), Some("CT"),
                           IF k = 1 THEN iop1 ELSE IF k = n THEN iopn ELSE IopAxial,
                           <<0, 0, k - 1>>, g[k])]

\* a series of any modalities: n records of an axial stack, record k with the
\* modality g[k][1], and with the InstanceNumber k iff g[k][2]
MixedSeries(n, g) ==
    [k \in 1..n |-> Record(IF g[k][2] THEN Some(k) ELSE None, g[k][1],
                           IopAxial, <<0, 0, k - 1>>, GeomBase)]

IndexSets(n) == {T \in SUBSET (1..MaxIndex) : Cardinality(T) = n}

\* orientations of the other classes: a coronal and a sagittal stack, one oblique to
\* every axis, and one whose row vector is zero
IopCoronal == <<1, 0, 0, 0, 0, 1>>
IopSagittal == <<0, 1, 0, 0, 0, 1>>
IopOblique == <<1, 0, 1, 0, 1, 1>>
IopColumnOnly == <<0, 0, 0, 0, 0, 1>>
OrientSet == {IopAxial, IopCoronal, IopSagittal, IopOblique, IopColumnOnly}

\* the step from one slice to the next of a stack with the orientation iop: the
\* normal of its row and column vectors
StackStep(iop) ==
    <<iop[2]*iop[6] - iop[3]*iop[5], iop[3]*iop[4] - iop[1]*iop[6],
      iop[1]*iop[5] - iop[2]*iop[4]>>

\* a CT series of a stack of any orientation: n records with the instance indices
\* 1..n, the first with the orientation iop1 and the others with iop, stepping along
\* the normal of iop
OrientedSeries(n, iop1, iop) ==
    [k \in 1..n |-> Record(Some(k), Some("CT"), IF k = 1 THEN iop1 ELSE iop,
                           <<(k - 1) * StackStep(iop)[1], (k - 1) * StackStep(iop)[2],
                             (k - 1) * StackStep(iop)[3]>>, GeomBase)]

---------------------------------------------------------------------------
(* The three subsystems at rest *)

ReconIdle == dicom_dict = <<>> /\ modality = None /\ rec_out = NotRun

NoCall == [op |-> "none"]

\* BaseTransManager.__init__
RegistryIdle ==
    /\ collection = EmptyTable
    /\ retired = EmptyTable
    /\ experimental = EmptyTable
    /\ warned = <<>>
    /\ reg_call = NoCall

TransIdle == trans_in = NotRun /\ trans_out = NotRun
FnIdle == fn_call = NotRun /\ fn_result = NotRun

---------------------------------------------------------------------------
(* Series reconstruction: the caller holds a series and calls reconstruct_series *)

InitRecon ==
    /\ \/ \E n \in 2..MaxInst :
            \E S \in IndexSets(n) :
            \E iop1 \in {IopAxial, IopDegenerate, None} :
            \E iopn \in {IopAxial, None} :
            \E g \in [1..n -> GeomSet] :
                dicom_dict = GeomSeries(n, S, iop1, iopn, g) /\ modality = None
       \/ \E n \in 2..MaxInst :
            \E g \in [1..n -> IopSet \X PosSet] :
                dicom_dict = CTSeries(n, g) /\ modality = None
       \/ \E n \in 2..MaxInst :
            \E iop1 \in OrientSet \cup {IopDegenerate} :
            \E iop \in OrientSet :
                dicom_dict = OrientedSeries(n, iop1, iop) /\ modality = None
       \/ \E n \in 0..MaxInst :
            \E g \in [1..n -> ModSet \X BOOLEAN] :
            \E m \in OverrideSet :
                dicom_dict = MixedSeries(n, g) /\ modality = m
    /\ rec_out = NotRun
    /\ RegistryIdle
    /\ TransIdle
    /\ FnIdle

ReconstructSeries ==
    /\ rec_out = NotRun
    /\ rec_out' = reconstruct_series(dicom_dict, modality)
    /\ UNCHANGED <<dicom_dict, modality, registry_vars, trans_vars, fn_vars>>

NextRecon == ReconstructSeries

SpecRecon == InitRecon /\ [][NextRecon]_vars

---------------------------------------------------------------------------
(* What a caller can read off the series it passed and the result it got *)

Done == rec_out.status # "not run"
Ok == rec_out.status = "ok"

Indexed == {k \in DOMAIN dicom_dict : ~IsNone(dicom_dict[k].InstanceNumber)}
Indices == {Val(dicom_dict[k].InstanceNumber) : k \in Indexed}
Sorted == SortSet(Indices)
RecOf(i) == dicom_dict[CHOOSE k \in Indexed : Val(dicom_dict[k].InstanceNumber) = i]
Codes == {dicom_dict[k].Modality : k \in DOMAIN dicom_dict}

ExpectedCode(o) == CASE o = "ct" -> "CT" [] o = "mr" -> "MR" [] OTHER -> o

\* the modality the series is reconstructed as: the override, else the one code
\* every record carries
SeriesModKnown == ~IsNone(modality) \/ Cardinality(Codes) = 1
SeriesMod ==
    IF ~IsNone(modality) THEN Some(ExpectedCode(Val(modality)))
    ELSE CHOOSE c \in Codes : TRUE

\* the CT algorithm is entered
CTEntered == SeriesModKnown /\ SeriesMod = Some("CT") /\ Cardinality(Indices) >= 2

First2Iop ==
    /\ ~IsNone(RecOf(Sorted[1]).ImageOrientationPatient)
    /\ ~IsNone(RecOf(Sorted[2]).ImageOrientationPatient)

Discards ==
    discard_first(RecOf(Sorted[1]).ImageOrientationPatient,
                  RecOf(Sorted[2]).ImageOrientationPatient)

\* the sorted instance indices that remain after the leading-slice discard
Remaining == IF Discards THEN Tail(Sorted) ELSE Sorted

\* pair k is (Remaining[k], Remaining[k+1])
Pairs == 1..(Len(Remaining) - 1)
Jump(k) == Remaining[k+1] - Remaining[k] # 1

\* the validations that precede the walk over the pairs all pass
PreWalkPass ==
    /\ First2Iop
    /\ \A i, j \in Range(Remaining) :
          /\ RecOf(i).Rows = RecOf(j).Rows
          /\ RecOf(i).Columns = RecOf(j).Columns
          /\ round_half_even(RecOf(i).PixelSpacing[1], 10)
               = round_half_even(RecOf(j).PixelSpacing[1], 10)
          /\ round_half_even(RecOf(i).PixelSpacing[2], 10)
               = round_half_even(RecOf(j).PixelSpacing[2], 10)
    /\ \A i \in Range(Remaining) : ~IsNone(RecOf(i).ImageOrientationPatient)

Cross(r, c) == <<r[2]*c[3] - r[3]*c[2], r[3]*c[1] - r[1]*c[3], r[1]*c[2] - r[2]*c[1]>>
Dot(a, b) == a[1]*b[1] + a[2]*b[2] + a[3]*b[3]

\* the displacement of pair k, its squared magnitude, and its projection on the
\* normal row x column of the earlier slice's orientation
Disp(k) ==
    [j \in 1..3 |-> RecOf(Remaining[k+1]).ImagePositionPatient[j]
                      - RecOf(Remaining[k]).ImagePositionPatient[j]]
Normal(iop) == Cross(SubSeq(iop, 1, 3), SubSeq(iop, 4, 6))
Proj(k) == Dot(Disp(k), Normal(RecOf(Remaining[k]).ImageOrientationPatient))

\* the pairs whose displacement magnitude is >= 1e-4 mm
Moving == {k \in Pairs : 100000000 * SqNorm(Disp(k)) >= 1}

HasMsg(kind, k) ==
    /\ rec_out.status = "AssertionError"
    /\ <<kind, Remaining[k], Remaining[k+1]>> \in Range(rec_out.msg)

---------------------------------------------------------------------------
(* Claims about series reconstruction, checked under SpecRecon *)

\* C2 as stated: whenever the indices that remain after the leading-slice discard
\* of a CT series contain a consecutive pair whose difference is not 1,
\* reconstruct_series raises the index-jump error.
C2_JumpAlwaysIndexJumpError ==
    (Done /\ CTEntered /\ First2Iop /\ (\E k \in Pairs : Jump(k)))
        => \E k \in Pairs : HasMsg("index jump", k)

\* C2 amended: such a series never reconstructs; when the validations that precede
\* the walk pass, the error is the index-jump error and names every such pair;
\* and every successful CT result has a strictly ascending index_list whose
\* consecutive differences are all 1.
C2_JumpIsFatal ==
    /\ (Done /\ CTEntered /\ First2Iop /\ (\E k \in Pairs : Jump(k)))
          => /\ rec_out.status \in {"AssertionError", "AttributeError"}
             /\ PreWalkPass => \A k \in Pairs : Jump(k) <=> HasMsg("index jump", k)
    /\ (Ok /\ SeriesModKnown /\ SeriesMod = Some("CT"))
          => \A k \in 1..(Len(rec_out.index_list) - 1) :
                rec_out.index_list[k+1] - rec_out.index_list[k] = 1

\* a series with an index jump behind a discarded first slice, all else valid
C2_Witness ==
    /\ Done /\ CTEntered /\ PreWalkPass /\ Discards
    /\ \E k \in Pairs : Jump(k) /\ HasMsg("index jump", k)

\* C3 as stated: a CT reconstruction in which no consecutive pair yields a
\* chirality sign succeeds with chirality undefined (none).
C3_NoPairChiralityNone ==
    (Ok /\ CTEntered /\ Moving = {}) => rec_out.chirality = None

\* C4: a CT reconstruction succeeds only if every pair that moves by >= 1e-4 mm is
\* aligned with the normal (|projection| / magnitude >= 0.99) and all projections
\* have one sign; a misaligned pair is reported as 'not aligned' and disagreeing
\* signs as a chirality mismatch; on success the chirality is the sign (+1 / -1)
\* and the spacing set holds the magnitudes of those pairs (stored in 1e-4 mm).
C4_AlignedOneSign ==
    /\ (Ok /\ CTEntered)
          => /\ \A k \in Moving :
                  /\ 10000 * Proj(k) * Proj(k) >= 9801 * SqNorm(Disp(k))
                  /\ rec_out.chirality = Some(IF Proj(k) > 0 THEN 1 ELSE -1)
             /\ \A j, k \in Moving : (Proj(j) > 0) = (Proj(k) > 0)
             /\ rec_out.spacing_slice = Some({round_spacing(SqNorm(Disp(k))) : k \in Moving})
    /\ (Done /\ CTEntered /\ PreWalkPass)
          => /\ \A k \in Moving :
                  (~Jump(k) /\ 10000 * Proj(k) * Proj(k) < 9801 * SqNorm(Disp(k)))
                      <=> HasMsg("do not aligned", k)
             /\ ((\A k \in Moving :
                     ~Jump(k) /\ 10000 * Proj(k) * Proj(k) >= 9801 * SqNorm(Disp(k)))
                  /\ (\A k \in Pairs : ~Jump(k))
                  /\ (\E j, k \in Moving : (Proj(j) > 0) # (Proj(k) > 0)))
                    => rec_out = Raise("AssertionError",
                                       Msg("Direction (Chirality) of images mismatch"))

\* a successful reconstruction with descending positions: chirality -1, spacing 1 mm
C4_Witness ==
    /\ Ok /\ CTEntered /\ Cardinality(Moving) >= 2
    /\ rec_out.chirality = Some(-1)
    /\ rec_out.spacing_slice = Some({10000})

\* the series of C5: three CT slices, orientation (0,0,0,1,0,0), positions
\* (0,0,0), (0,0,1), (0,0,2), instance indices 1, 2, 3
C5_Series ==
    CTSeries(3, [k \in 1..3 |-> <<IopDegenerate, <<0, 0, k - 1>> >>])

\* C5 as stated: that series reconstructs with chirality +1 and spacing {1.0}, and
\* series_like is the first class whose normal is orthogonal to both vectors.
C5_ExampleSucceeds ==
    (Done /\ dicom_dict = C5_Series /\ IsNone(modality))
        => /\ Ok
           /\ rec_out.chirality = Some(1)
           /\ rec_out.spacing_slice = Some({10000})
           /\ rec_out.series_like = Some("axial")

\* C5 amended: that series does not reconstruct: the first slice is discarded (the
\* cross term is 0), and the pair 2 -> 3 has projection 0 on the zero normal, so the
\* fatal 'not aligned' error for 2 and 3 is raised.
C5_ExampleNotAligned ==
    (Done /\ dicom_dict = C5_Series /\ IsNone(modality))
        => rec_out = Raise("AssertionError", << <<"do not aligned", 2, 3>> >>)

C5_Witness == Done /\ dicom_dict = C5_Series /\ IsNone(modality)

\* the series with every record's modality code replaced by code
Relabel(d, code) == [k \in DOMAIN d |-> [d[k] EXCEPT !.Modality = Some(code)]]

\* what the caller observes of a result
Outcome(r) ==
    IF r.status = "ok"
    THEN <<"ok", r.index_list, r.index_map, r.chirality, r.spacing_slice, r.series_like>>
    ELSE <<r.status, r.msg>>

\* C6: without an override reconstruct_series fails with 'Multiple Modality' iff the
\* records do not all carry the same modality code; with an override the records'
\* codes are not compared and the upper-cased override selects the path: the outcome
\* is that of the same series with every record carrying the upper-cased override.
C6_ModalityOrOverride ==
    Done =>
        /\ IsNone(modality)
              => (rec_out = Raise("AssertionError", Msg("Multiple Modality were found"))
                    <=> Cardinality(Codes) > 1)
        /\ (~IsNone(modality) /\ dicom_dict # <<>>)
              => Outcome(rec_out)
                   = Outcome(reconstruct_series(
                        Relabel(dicom_dict, ExpectedCode(Val(modality))), None))

\* a lower-case override reconstructs a series of mixed codes as CT
C6_Witness ==
    /\ Ok /\ modality = Some("ct") /\ Cardinality(Codes) > 1
    /\ rec_out.chirality = Some(1)

\* C7: CR and DX succeed only with exactly one indexed instance (zero or several is
\* fatal), with chirality and spacing absent; CT fails with fewer than 2 instances;
\* every other modality fails with the not-implemented error.
C7_Dispatch ==
    (Done /\ SeriesModKnown) =>
        /\ SeriesMod \in {Some("CR"), Some("DX")}
              => /\ Ok => /\ Cardinality(Indices) = 1
                          /\ rec_out.chirality = None
                          /\ rec_out.spacing_slice = None
                 /\ Cardinality(Indices) # 1 => rec_out.status = "AssertionError"
        /\ (SeriesMod = Some("CT") /\ Cardinality(Indices) < 2)
              => rec_out.status = "AssertionError"
        /\ SeriesMod \notin {Some("CR"), Some("DX"), Some("CT")}
              => rec_out.status = "NotImplementedError"

\* a DX series of several records of which exactly one has an instance index
C7_Witness ==
    /\ Ok /\ IsNone(modality) /\ SeriesMod = Some("DX")
    /\ Len(dicom_dict) > 1 /\ Cardinality(Indices) = 1

---------------------------------------------------------------------------
(* The transform registry: handlers are registered and resolved in any order *)

InitRegistry == ReconIdle /\ RegistryIdle /\ TransIdle /\ FnIdle

Register ==
    \E mode \in Modes, func \in Handlers,
       is_retired \in BOOLEAN, skip_if_exists \in BOOLEAN, is_experimental \in BOOLEAN :
        LET r == register(collection, retired, experimental, mode, func,
                          is_retired, skip_if_exists, is_experimental)
        IN  /\ collection' = r.collection
            /\ retired' = r.retired
            /\ experimental' = r.experimental
            /\ warned' = r.warned
            /\ reg_call' = [op |-> "register", mode |-> mode, func |-> func,
                            retired |-> is_retired, skip_if_exists |-> skip_if_exists,
                            experimental |-> is_experimental, result |-> r.result]
            /\ UNCHANGED <<recon_vars, trans_vars, fn_vars>>

GetFunc ==
    \E pi \in PISet :
        LET dcmObj == [PhotometricInterpretation |-> pi]
            r == get_func(collection, retired, experimental, dcmObj)
        IN  /\ warned' = r.warned
            /\ reg_call' = [op |-> "get_func", dcmObj |-> dcmObj, result |-> r.result]
            /\ UNCHANGED <<collection, retired, experimental, recon_vars, trans_vars, fn_vars>>

GetModes ==
    /\ warned' = <<>>
    /\ reg_call' = [op |-> "modes", result |-> modes(collection)]
    /\ UNCHANGED <<collection, retired, experimental, recon_vars, trans_vars, fn_vars>>

NextRegistry == Register \/ GetFunc \/ GetModes

SpecRegistry == InitRegistry /\ [][NextRegistry]_vars

---------------------------------------------------------------------------
(* Claims about the registry, checked under SpecRegistry *)

\* C8: a register call for a mode that is already registered replaces the handler
\* and its retired/experimental flags and warns 'Overwrite' when skip_if_exists is
\* false; it leaves the three tables as they were and warns 'Skip' when
\* skip_if_exists is true; a call for a mode not yet registered warns nothing.
C8_RegisterExisting ==
    [][reg_call'.op = "register" =>
        LET m == reg_call'.mode
        IN  IF ~IsNone(collection[m])
            THEN IF reg_call'.skip_if_exists
                 THEN /\ collection' = collection
                      /\ retired' = retired
                      /\ experimental' = experimental
                      /\ warned' = << <<"Skip", Some(m)>> >>
                 ELSE /\ collection' = [collection EXCEPT ![m] = Some(reg_call'.func)]
                      /\ retired' = [retired EXCEPT ![m] = Some(reg_call'.retired)]
                      /\ experimental' =
                            [experimental EXCEPT ![m] = Some(reg_call'.experimental)]
                      /\ warned' = << <<"Overwrite", Some(m)>> >>
            ELSE warned' = <<>>]_vars

\* a skipped registration: the mode keeps another handler and other flags than the
\* ones of the call
C8_Witness ==
    /\ reg_call.op = "register"
    /\ reg_call.skip_if_exists
    /\ warned = << <<"Skip", Some(reg_call.mode)>> >>
    /\ collection[reg_call.mode] # Some(reg_call.func)
    /\ retired[reg_call.mode] # Some(reg_call.retired)
    /\ experimental[reg_call.mode] # Some(reg_call.experimental)

\* C9: get_func returns (mode, handler) with mode the record's classification and
\* handler the one registered for it or none; it warns 'not implemented' iff no
\* handler is registered for the mode, 'retired' iff the mode is registered as
\* retired, 'experimental' iff it is registered as experimental; it leaves the
\* registry as it was.
C9_GetFunc ==
    [][reg_call'.op = "get_func" =>
        LET mode == reg_call'.dcmObj.PhotometricInterpretation
            registered == /\ ~IsNone(mode)
                          /\ Val(mode) \in Modes
                          /\ ~IsNone(collection[Val(mode)])
        IN  /\ reg_call'.result
                 = <<mode, IF registered THEN collection[Val(mode)] ELSE None>>
            /\ <<"not implemented", mode>> \in Range(warned') <=> ~registered
            /\ <<"retired", mode>> \in Range(warned')
                 <=> (registered /\ retired[Val(mode)] = Some(TRUE))
            /\ <<"experimental", mode>> \in Range(warned')
                 <=> (registered /\ experimental[Val(mode)] = Some(TRUE))
            /\ Len(warned') = Cardinality(Range(warned'))
            /\ UNCHANGED <<collection, retired, experimental>>]_vars

\* a record whose mode is registered as retired and experimental is resolved
C9_Witness ==
    /\ reg_call.op = "get_func"
    /\ reg_call.result[2] \in {Some(h) : h \in Handlers}
    /\ warned = << <<"retired", reg_call.result[1]>>, <<"experimental", reg_call.result[1]>> >>

---------------------------------------------------------------------------
(* The transformation pipeline: dcmtrans.py, modality_trans.py, voi_trans.py,
   pi_trans.py, trans_method.py, ct_window.py.

   A float64 value is an exact rational <<n, d>> in lowest terms with d > 0:
   the rounding of IEEE arithmetic is not modelled. A pixel is <<kind, n, d>>:
   kind "q" is the number n/d; kind "sig" is (depth - 1) / (1 + exp(-n/d)),
   the value of the sigmoid window for the depth of the call. An image is its
   numpy dtype and the sequence of its pixels. *)

RECURSIVE GCD(_, _)
GCD(a, b) == IF b = 0 THEN a ELSE GCD(b, a % b)

Q(n, d) ==
    LET g == GCD(Abs(n), Abs(d))
        s == IF d < 0 THEN -1 ELSE 1
    IN  <<(s * n) \div g, (s * d) \div g>>

QInt(n) == <<n, 1>>
QAdd(a, b) == Q(a[1] * b[2] + b[1] * a[2], a[2] * b[2])
QSub(a, b) == Q(a[1] * b[2] - b[1] * a[2], a[2] * b[2])
QMul(a, b) == Q(a[1] * b[1], a[2] * b[2])
QDiv(a, b) == Q(a[1] * b[2], a[2] * b[1])
QLe(a, b) == a[1] * b[2] <= b[1] * a[2]
QLt(a, b) == a[1] * b[2] < b[1] * a[2]
QMin(a, b) == IF QLe(a, b) THEN a ELSE b
QMax(a, b) == IF QLe(a, b) THEN b ELSE a
\* numpy.floor
QFloor(a) == a[1] \div a[2]

\* the integer part, towards zero
QTrunc(a) == IF a[1] >= 0 THEN a[1] \div a[2] ELSE -((-a[1]) \div a[2])

Half == <<1, 2>>

Px(q) == <<"q", q[1], q[2]>>
PxSig(t) == <<"sig", t[1], t[2]>>
PxVal(p) == <<p[2], p[3]>>

Image(dtype, px) == [dtype |-> dtype, px |-> px]

\* the bits of an unsigned integer dtype
DtypeBits(dtype) == IF dtype = "uint8" THEN 8 ELSE 16
IsUnsigned(dtype) == dtype \in {"uint8", "uint16"}
Pow2(n) == 2 ^ n

\* ndarray.astype(dtype) of a float64 value: a float is kept, an unsigned integer is
\* the integer part modulo 2^bits, an int16 the integer part wrapped into its range
astype(q, dtype) ==
    IF IsUnsigned(dtype) THEN QInt(QTrunc(q) % Pow2(DtypeBits(dtype)))
    ELSE IF dtype = "int16" THEN QInt(((QTrunc(q) + Pow2(15)) % Pow2(16)) - Pow2(15))
    ELSE q

\* a value returned by a stage
Returned(r) == r.status = "ok"

---------------------------------------------------------------------------
(* trans_method.py *)

do_nothing(image) == image

\* lines 8-13: image * slope + intercept with float slope and intercept; a missing
\* slope or intercept is None, which numpy refuses
linear_trans(image, intercept, slope) ==
    IF IsNone(slope)
    THEN Raise("TypeError", "unsupported operand type(s) for *")
    ELSE IF IsNone(intercept)
    THEN Raise("TypeError", "unsupported operand type(s) for +")
    ELSE [status |-> "ok",
          image |-> Image("float64",
                          [k \in DOMAIN image.px |->
                              Px(QAdd(QMul(PxVal(image.px[k]), QInt(Val(slope))),
                                      QInt(Val(intercept))))])]

\* lines 50-56: the table lookup. lut_descriptor is [dtype, count, first, bits],
\* lut_data an image of the table entries; scale_factor is None for the default (the
\* int 1, which keeps the dtype of the table) and a float otherwise. The subtraction
\* of an unsigned descriptor from an unsigned image wraps in the image's width.
lut_index(v, image_dtype, lut_descriptor) ==
    LET shifted == QSub(v, QInt(lut_descriptor.first))
        wrapped == IF IsUnsigned(image_dtype) /\ IsUnsigned(lut_descriptor.dtype)
                   THEN QInt(shifted[1] % Pow2(DtypeBits(image_dtype)))
                   ELSE shifted
    IN  IF QLe(wrapped, QInt(0)) THEN 0
        ELSE IF QLe(QInt(lut_descriptor.count), wrapped) THEN lut_descriptor.count - 1
        ELSE QTrunc(wrapped)

lut_trans(image, lut_descriptor, lut_data, scale_factor) ==
    LET scaled == IF IsNone(scale_factor) THEN lut_data
                  ELSE Image("float64",
                             [k \in DOMAIN lut_data.px |->
                                 Px(QMul(PxVal(lut_data.px[k]), Val(scale_factor)))])
        index(k) == lut_index(PxVal(image.px[k]), image.dtype, lut_descriptor)
    IN  IF \E k \in DOMAIN image.px : index(k) >= Len(scaled.px)
        THEN Raise("IndexError", "index is out of bounds")
        ELSE [status |-> "ok",
              image |-> Image(scaled.dtype,
                              [k \in DOMAIN image.px |-> scaled.px[index(k) + 1]])]

\* trans_method.py lines 51 and 56 for LUT data that is not an array but the decoded
\* sequence of the record (a pydicom MultiValue, or a list): the sequence cannot be
\* multiplied by the scale factor, and a list cannot be indexed by the index array
lut_trans_decoded == Raise("TypeError", "unsupported operand or index for a sequence")

---------------------------------------------------------------------------
(* modality_trans.py. A LUT sequence item is [LUTDescriptor |-> <<count, first,
   bits>>, LUTData |-> the table entries, ModalityLUTType |-> unit]; descriptor and
   data are byte strings in the record and are held here as the numbers they decode
   to. *)

\* mutant of modality_classifier: a LUT sequence gives TABLE whatever else is present
modality_classifier_lut_first(dcmObj) ==
    IF ~IsNone(dcmObj.ModalityLUTSequence) THEN Some("TABLE")
    ELSE IF ~IsNone(dcmObj.RescaleIntercept) THEN Some("LINEAR")
    ELSE None

\* lines 19-35: ModalityTransManager.get_mode
modality_classifier(dcmObj) ==
    IF ~IsNone(dcmObj.ModalityLUTSequence) /\ IsNone(dcmObj.RescaleIntercept)
    THEN Some("TABLE")
    ELSE IF ~IsNone(dcmObj.RescaleIntercept) THEN Some("LINEAR")
    ELSE None

\* str.strip() on the modality codes the model uses
Strip(s) == IF s = "CT " THEN "CT" ELSE s

\* lines 56-65
modality_linear_trans(dcmObj, image_data) ==
    LET unit == IF IsNone(dcmObj.RescaleType)
                   /\ ~IsNone(dcmObj.Modality) /\ Strip(Val(dcmObj.Modality)) = "CT"
                THEN Some("HU")
                ELSE dcmObj.RescaleType
        r == linear_trans(image_data, dcmObj.RescaleIntercept, dcmObj.RescaleSlope)
    IN  IF Returned(r) THEN [status |-> "ok", image |-> r.image, unit |-> unit] ELSE r

\* mutant of lut_data_dtype: every width other than 8 is read as 16-bit entries
lut_data_dtype_any_width(bits) ==
    IF bits = 8 THEN Some("uint8") ELSE Some("uint16")

\* modality_trans.py lines 84-91, voi_trans.py lines 163-170: the dtype of byte-packed
\* LUT data, chosen from the bits of the descriptor
lut_data_dtype(bits) ==
    IF bits = 8 THEN Some("uint8") ELSE IF bits = 16 THEN Some("uint16") ELSE None

\* lines 69-93
modality_lut_trans(dcmObj, image_data) ==
    LET item == Val(dcmObj.ModalityLUTSequence)
        d == item.LUTDescriptor
        dtype == lut_data_dtype(d[3])
    IN  IF IsNone(dcmObj.PixelRepresentation)
        THEN Raise("TypeError", "int() argument must be a string or a number")
        ELSE IF ~item.LUTDataBytes
        THEN lut_trans_decoded
        ELSE IF IsNone(dtype)
        THEN Raise("ValueError", "LUTDescriptor[2] should be 8 or 16")
        ELSE LET desc == [dtype |-> IF Val(dcmObj.PixelRepresentation) = 0
                                    THEN "uint16" ELSE "int16",
                          count |-> d[1], first |-> d[2], bits |-> d[3]]
                 data == Image(Val(dtype), [k \in DOMAIN item.LUTData |->
                                                Px(QInt(item.LUTData[k]))])
                 r == lut_trans(image_data, desc, data, None)
             IN  IF Returned(r)
                 THEN [status |-> "ok", image |-> r.image, unit |-> item.ModalityLUTType]
                 ELSE r

---------------------------------------------------------------------------
(* ct_window.py *)

\* lines 3-11: PRESET_WINDOW and DEFULT as (wl, ww)
PresetNames == {"abdomen", "angio", "bone", "brain", "mediastinum", "lung"}
PRESET_WINDOW(name) ==
    CASE name = "abdomen" -> <<60, 400>>
      [] name = "angio" -> <<300, 600>>
      [] name = "bone" -> <<300, 1500>>
      [] name = "brain" -> <<40, 80>>
      [] name = "mediastinum" -> <<40, 400>>
      [] name = "lung" -> <<-750, 1500>>
DEFULT == <<0, 2000>>

\* lines 14-30
get_ct_window(body_part) ==
    IF body_part \in PresetNames THEN PRESET_WINDOW(body_part) ELSE DEFULT

---------------------------------------------------------------------------
(* voi_trans.py. A requested window is [kind |-> "str", name |-> the string] or
   [kind |-> "dict", window_center |-> value or None, window_width |-> value or
   None]. WindowCenter and WindowWidth of a record are the sequence of their values
   (one value, or several when multi-valued). *)

WinStr(name) == [kind |-> "str", name |-> name, window_center |-> None, window_width |-> None]
WinDict(wc, ww) == [kind |-> "dict", name |-> "", window_center |-> wc, window_width |-> ww]

\* lines 28-48: VOITransManager.get_mode
voi_classifier(dcmObj) ==
    IF ~IsNone(dcmObj.VOILUTSequence) /\ IsNone(dcmObj.WindowCenter) THEN Some("TABLE")
    ELSE IF ~IsNone(dcmObj.WindowCenter)
    THEN IF IsNone(dcmObj.VOILUTFunction) THEN Some("LINEAR") ELSE dcmObj.VOILUTFunction
    ELSE Some("LINEAR")

\* lines 75-82 and 89-96: the window of the record, the first value when multi-valued;
\* None when an attribute is missing (the AttributeError the code catches)
record_window(dcmObj) ==
    IF IsNone(dcmObj.WindowCenter) \/ IsNone(dcmObj.WindowWidth) THEN None
    ELSE Some(<<Val(dcmObj.WindowCenter)[1], Val(dcmObj.WindowWidth)[1]>>)

\* mutant of get_window: a named window with the unit HU is looked up in the presets
\* before a 'default' window or an absent unit is considered
get_window_preset_first(dcmObj, window, unit) ==
    LET found(wc, ww) ==
            IF IsNone(wc) \/ IsNone(ww)
            THEN Raise("ValueError", "Either window center or window width not found")
            ELSE [status |-> "ok", wc |-> Val(wc), ww |-> Val(ww)]
        rw == record_window(dcmObj)
    IN  IF window.kind = "dict" THEN found(window.window_center, window.window_width)
        ELSE IF ~IsNone(unit) /\ Val(unit) \in {"HU", "Hounsfield Unit"}
        THEN LET w == get_ct_window(window.name) IN found(Some(w[1]), Some(w[2]))
        ELSE IF ~IsNone(rw) THEN found(Some(Val(rw)[1]), Some(Val(rw)[2]))
        ELSE IF IsNone(dcmObj.BitsStored)
        THEN Raise("TypeError", "unsupported operand type(s) for -")
        ELSE found(Some(Pow2(Val(dcmObj.BitsStored) - 1)),
                   Some(Pow2(Val(dcmObj.BitsStored))))

\* lines 70-102
get_window(dcmObj, window, unit) ==
    LET found(wc, ww) ==
            IF IsNone(wc) \/ IsNone(ww)
            THEN Raise("ValueError", "Either window center or window width not found")
            ELSE [status |-> "ok", wc |-> Val(wc), ww |-> Val(ww)]
        rw == record_window(dcmObj)
    IN  IF window.kind = "dict" THEN found(window.window_center, window.window_width)
        ELSE IF window.name = "default" \/ IsNone(unit)
        THEN IF ~IsNone(rw) THEN found(Some(Val(rw)[1]), Some(Val(rw)[2]))
             ELSE IF IsNone(dcmObj.BitsStored)
             THEN Raise("TypeError", "unsupported operand type(s) for -")
             ELSE found(Some(Pow2(Val(dcmObj.BitsStored) - 1)),
                        Some(Pow2(Val(dcmObj.BitsStored))))
        ELSE IF Val(unit) \in {"HU", "Hounsfield Unit"}
        THEN LET w == get_ct_window(window.name) IN found(Some(w[1]), Some(w[2]))
        ELSE IF ~IsNone(rw) THEN found(Some(Val(rw)[1]), Some(Val(rw)[2]))
        ELSE found(None, None)

\* trans_method.py lines 16-28. The comparisons and the ramp are computed in float64,
\* the result is clipped to [0, depth-1] and cast back to the dtype of the image.
window_linear_trans(image, window_center, window_width, depth) ==
    LET wc == QSub(QInt(window_center), Half)
        hw == QDiv(QInt(window_width - 1), QInt(2))
        top == QInt(depth - 1)
        clip(x) == QMax(QInt(0), QMin(top, x))
        out(v) == IF QLe(v, QSub(wc, hw)) THEN QInt(0)
                  ELSE IF QLt(QAdd(wc, hw), v) THEN top
                  ELSE QMul(QAdd(QDiv(QSub(v, wc), QInt(window_width - 1)), Half), top)
    IN  Image(image.dtype,
              [k \in DOMAIN image.px |->
                  Px(astype(clip(out(PxVal(image.px[k]))), image.dtype))])

\* mutant of window_linear_exact_trans: the ramp is cast without being clipped
window_linear_exact_trans_unclipped(image, window_center, window_width, depth) ==
    LET wc == QInt(window_center)
        hw == QDiv(QInt(window_width), QInt(2))
        top == QInt(depth - 1)
        out(v) == IF QLe(v, QSub(wc, hw)) THEN QInt(0)
                  ELSE IF QLt(QAdd(wc, hw), v) THEN top
                  ELSE QMul(QDiv(QSub(v, wc), QInt(window_width)), top)
    IN  Image(image.dtype,
              [k \in DOMAIN image.px |->
                  Px(astype(out(PxVal(image.px[k])), image.dtype))])

\* trans_method.py lines 31-43
window_linear_exact_trans(image, window_center, window_width, depth) ==
    LET wc == QInt(window_center)
        hw == QDiv(QInt(window_width), QInt(2))
        top == QInt(depth - 1)
        clip(x) == QMax(QInt(0), QMin(top, x))
        out(v) == IF QLe(v, QSub(wc, hw)) THEN QInt(0)
                  ELSE IF QLt(QAdd(wc, hw), v) THEN top
                  ELSE QMul(QDiv(QSub(v, wc), QInt(window_width)), top)
    IN  Image(image.dtype,
              [k \in DOMAIN image.px |->
                  Px(astype(clip(out(PxVal(image.px[k]))), image.dtype))])

\* trans_method.py lines 46-47, for a window width other than 0: the pixel keeps the
\* exponent 4 (v - center) / width of the sigmoid
window_sigmoid_trans(image, window_center, window_width, depth) ==
    Image("float64",
          [k \in DOMAIN image.px |->
              PxSig(QDiv(QMul(QInt(4), QSub(PxVal(image.px[k]), QInt(window_center))),
                         QInt(window_width)))])

\* voi_trans.py lines 105-114
voi_linear_trans(dcmObj, image_data, depth, window, unit) ==
    LET w == get_window(dcmObj, window, unit)
    IN  IF Returned(w)
        THEN [status |-> "ok", image |-> window_linear_trans(image_data, w.wc, w.ww, depth)]
        ELSE w

\* voi_trans.py lines 117-126
voi_linear_exact_trans(dcmObj, image_data, depth, window, unit) ==
    LET w == get_window(dcmObj, window, unit)
    IN  IF Returned(w)
        THEN [status |-> "ok",
              image |-> window_linear_exact_trans(image_data, w.wc, w.ww, depth)]
        ELSE w

\* voi_trans.py lines 129-138
voi_sigmoid_trans(dcmObj, image_data, depth, window, unit) ==
    LET w == get_window(dcmObj, window, unit)
    IN  IF Returned(w)
        THEN [status |-> "ok", image |-> window_sigmoid_trans(image_data, w.wc, w.ww, depth)]
        ELSE w

\* BitsStored where the attribute is missing (voi_trans.py line 171)
DefaultBitsStored == 12

\* voi_trans.py lines 141-172
voi_lut_trans(dcmObj, image_data, depth, window, unit) ==
    LET item == Val(dcmObj.VOILUTSequence)
        d == item.LUTDescriptor
        dtype == lut_data_dtype(d[3])
        bits == IF IsNone(dcmObj.BitsStored) THEN DefaultBitsStored
                ELSE Val(dcmObj.BitsStored)
    IN  IF IsNone(dcmObj.PixelRepresentation)
        THEN Raise("TypeError", "int() argument must be a string or a number")
        ELSE IF ~item.LUTDataBytes
        THEN lut_trans_decoded
        ELSE IF IsNone(dtype)
        THEN Raise("ValueError", "LUTDescriptor[2] should be 8 or 16")
        ELSE LET desc == [dtype |-> IF IsNone(modality_classifier(dcmObj))
                                       /\ Val(dcmObj.PixelRepresentation) = 0
                                    THEN "uint16" ELSE "int16",
                          count |-> d[1], first |-> d[2], bits |-> d[3]]
                 data == Image(Val(dtype), [k \in DOMAIN item.LUTData |->
                                                Px(QInt(item.LUTData[k]))])
             IN  lut_trans(image_data, desc, data, Some(Q(depth, Pow2(bits))))

---------------------------------------------------------------------------
(* pi_trans.py *)

\* lines 55-78: -image_data + depth - 1 in the dtype of the image, for a depth this
\* dtype holds (pi_monochrome1_numpy below covers every depth)
pi_monochrome1(dcmObj, image_data, depth) ==
    LET inv(p) ==
            IF p[1] = "sig" THEN PxSig(QSub(QInt(0), PxVal(p)))
            ELSE IF IsUnsigned(image_data.dtype)
            THEN Px(QInt((depth - 1 - PxVal(p)[1]) % Pow2(DtypeBits(image_data.dtype))))
            ELSE Px(QSub(QInt(depth - 1), PxVal(p)))
    IN  Image(image_data.dtype, [k \in DOMAIN image_data.px |-> inv(image_data.px[k])])

\* lines 81-105
pi_monochrome2(dcmObj, image_data, depth) == image_data

---------------------------------------------------------------------------
(* dcmtrans.py. A handler is held by its name and applied by Apply...; a stage
   returns [status |-> "ok", mode, image, ...] or the exception it raised. *)

\* lines 74-82
get_modality_trans_func(dcmObj) ==
    LET mode == modality_classifier(dcmObj)
    IN  IF mode = Some("LINEAR") THEN <<mode, Some("modality_linear_trans")>>
        ELSE IF mode = Some("TABLE") THEN <<mode, Some("modality_lut_trans")>>
        ELSE <<mode, None>>

ApplyModality(func, dcmObj, image_data) ==
    IF func = "modality_linear_trans" THEN modality_linear_trans(dcmObj, image_data)
    ELSE modality_lut_trans(dcmObj, image_data)

\* lines 91-92: the mode with what the handler returned, or what it raised
ModalityReturn(mode, r) ==
    IF Returned(r) THEN [status |-> "ok", mode |-> mode, image |-> r.image, unit |-> r.unit]
    ELSE r

\* line 121: the mode with what the handler returned, or what it raised
VOIReturn(mode, r) ==
    IF Returned(r) THEN [status |-> "ok", mode |-> mode, image |-> r.image] ELSE r

\* lines 85-94
modality_trans(dcmObj, image_data) ==
    LET mf == get_modality_trans_func(dcmObj)
    IN  IF ~IsNone(mf[2])
        THEN ModalityReturn(mf[1], ApplyModality(Val(mf[2]), dcmObj, image_data))
        ELSE [status |-> "ok", mode |-> mf[1], image |-> do_nothing(image_data),
              unit |-> None]

\* lines 97-109
get_voi_trans_func(dcmObj) ==
    LET mode == voi_classifier(dcmObj)
    IN  IF mode = Some("LINEAR") THEN <<mode, Some("voi_linear_trans")>>
        ELSE IF mode = Some("LINEAR_EXACT") THEN <<mode, Some("voi_linear_exact_trans")>>
        ELSE IF mode = Some("SIGMOID") THEN <<mode, Some("voi_sigmoid_trans")>>
        ELSE IF mode = Some("TABLE") THEN <<mode, Some("voi_lut_trans")>>
        ELSE <<mode, None>>

ApplyVOI(func, dcmObj, image_data, depth, window, unit) ==
    CASE func = "voi_linear_trans" ->
            voi_linear_trans(dcmObj, image_data, depth, window, unit)
      [] func = "voi_linear_exact_trans" ->
            voi_linear_exact_trans(dcmObj, image_data, depth, window, unit)
      [] func = "voi_sigmoid_trans" ->
            voi_sigmoid_trans(dcmObj, image_data, depth, window, unit)
      [] func = "voi_lut_trans" ->
            voi_lut_trans(dcmObj, image_data, depth, window, unit)

\* lines 112-123
voi_trans(dcmObj, image_data, depth, unit, window) ==
    LET mf == get_voi_trans_func(dcmObj)
    IN  IF ~IsNone(mf[2])
        THEN VOIReturn(mf[1], ApplyVOI(Val(mf[2]), dcmObj, image_data, depth, window, unit))
        ELSE [status |-> "ok", mode |-> mf[1], image |-> do_nothing(image_data)]

\* lines 126-134
get_pi_trans_func(dcmObj) ==
    LET mode == pi_get_mode(dcmObj)
    IN  IF mode = Some("MONOCHROME1") THEN <<mode, Some("pi_monochrome1")>>
        ELSE IF mode = Some("MONOCHROME2") THEN <<mode, Some("pi_monochrome2")>>
        ELSE <<mode, None>>

ApplyPI(func, dcmObj, image_data, depth) ==
    IF func = "pi_monochrome1" THEN pi_monochrome1(dcmObj, image_data, depth)
    ELSE pi_monochrome2(dcmObj, image_data, depth)

\* lines 137-146
pi_trans(dcmObj, image_data, depth) ==
    LET mf == get_pi_trans_func(dcmObj)
    IN  [status |-> "ok", mode |-> mf[1],
         image |-> IF ~IsNone(mf[2]) THEN ApplyPI(Val(mf[2]), dcmObj, image_data, depth)
                   ELSE do_nothing(image_data)]

\* lines 62-69: what one turn of the loop leaves, v being what the VOI stage returned
\* or raised, p what the PI stage did
dcmtrans_collect(acc, v, p) ==
    IF ~Returned(v)
    THEN [acc EXCEPT !.exception_list = Append(@, Some(v)),
                     !.image_data_list = Append(@, None)]
    ELSE IF ~Returned(p)
    THEN [acc EXCEPT !.voi_mode = v.mode,
                     !.exception_list = Append(@, Some(p)),
                     !.image_data_list = Append(@, None)]
    ELSE [acc EXCEPT !.voi_mode = v.mode,
                     !.pi_mode = p.mode,
                     !.exception_list = Append(@, None),
                     !.image_data_list = Append(@, Some(p.image))]

\* lines 62-63: the VOI stage, then the PI stage on its image
dcmtrans_pi(acc, dcmObj, depth, v) ==
    dcmtrans_collect(acc, v, IF Returned(v) THEN pi_trans(dcmObj, v.image, depth) ELSE v)

\* mutant of dcmtrans_window: a window transforms the image the window before it left
dcmtrans_window_in_place(dcmObj, depth, unit, w, acc) ==
    LET next == dcmtrans_pi(acc, dcmObj, depth,
                            voi_trans(dcmObj, acc.t_image_data, depth, unit, w))
        last == next.image_data_list[Len(next.image_data_list)]
    IN  IF IsNone(last) THEN next ELSE [next EXCEPT !.t_image_data = Val(last)]

\* lines 60-69: one turn of the loop. The stages work on a copy of the modality output;
\* an exception of the VOI or PI stage is caught and listed, with no image.
dcmtrans_window(dcmObj, depth, unit, w, acc) ==
    dcmtrans_pi(acc, dcmObj, depth, voi_trans(dcmObj, acc.t_image_data, depth, unit, w))

\* line 59: for w in window
RECURSIVE dcmtrans_loop(_, _, _, _, _)
dcmtrans_loop(dcmObj, depth, unit, window, acc) ==
    IF window = <<>> THEN acc
    ELSE dcmtrans_loop(dcmObj, depth, unit, Tail(window),
                       dcmtrans_window(dcmObj, depth, unit, Head(window), acc))

\* line 71: the value returned
dcmtrans_return(m, acc) ==
    [status |-> "ok",
     image_data_list |-> acc.image_data_list,
     exception_list |-> acc.exception_list,
     info |-> [modality |-> m.mode, modality_unit |-> m.unit,
               voi |-> acc.voi_mode, pi |-> acc.pi_mode]]

\* lines 54-71: the loop over the windows and the value returned, m being what the
\* modality stage returned or raised
dcmtrans_windows(dcmObj, depth, window, m) ==
    IF ~Returned(m) THEN m
    ELSE IF IsNone(window)
    THEN Raise("TypeError", "'NoneType' object is not iterable")
    ELSE dcmtrans_return(m, dcmtrans_loop(dcmObj, depth, m.unit, Val(window),
                                          [t_image_data |-> m.image,
                                           image_data_list |-> <<>>,
                                           exception_list |-> <<>>,
                                           voi_mode |-> None,
                                           pi_mode |-> None]))

\* lines 35-71. window is None or the sequence of the requested windows.
dcmtrans(dcmObj, image_data, depth, window) ==
    dcmtrans_windows(dcmObj, depth, window, modality_trans(dcmObj, image_data))

---------------------------------------------------------------------------
(* Inputs of the pipeline. Pixel arrays are uint16; PixelRepresentation is 0 or
   missing; the entries of the modality LUT are not below the first value of the VOI
   LUT, so that no subtraction of a signed descriptor from an unsigned image goes
   below zero (its dtype depends on the numpy in use). *)

MaxWin == 3                 \* windows requested in one call

\* a LUT sequence item whose LUTData is a byte string
LutItem(count, first, bits, data, type) ==
    [LUTDescriptor |-> <<count, first, bits>>, LUTData |-> data, ModalityLUTType |-> type,
     LUTDataBytes |-> TRUE]

\* a LUT sequence item whose LUTData is the decoded sequence of its entries
DecodedLutItem(count, first, bits, data, type) ==
    [LUTDescriptor |-> <<count, first, bits>>, LUTData |-> data, ModalityLUTType |-> type,
     LUTDataBytes |-> FALSE]

\* the attributes read by the modality stage
ModalityAttrs(intercept, slope, type, mod, lut) ==
    [RescaleIntercept |-> intercept, RescaleSlope |-> slope, RescaleType |-> type,
     Modality |-> mod, ModalityLUTSequence |-> lut]

ModalityAttrSet ==
    {ModalityAttrs(None, None, None, Some("CT"), None),
     ModalityAttrs(Some(-1024), Some(1), None, Some("CT "), None),
     ModalityAttrs(Some(-1024), Some(2), Some("US"), Some("CT"), None),
     ModalityAttrs(Some(-1024), None, None, Some("CT"), None),
     ModalityAttrs(None, None, None, None,
                   Some(LutItem(4, 22, 16, <<5, 10, 20, 30>>, Some("HU")))),
     ModalityAttrs(None, None, None, None,
                   Some(LutItem(4, 22, 12, <<5, 10, 20, 30>>, Some("HU"))))}

\* the attributes read by the VOI stage
VOIAttrs(function, lut, wc, ww, bits) ==
    [VOILUTFunction |-> function, VOILUTSequence |-> lut, WindowCenter |-> wc,
     WindowWidth |-> ww, BitsStored |-> bits]

VOIAttrSet ==
    {VOIAttrs(None, None, None, None, Some(8)),
     VOIAttrs(None, None, None, None, None),
     VOIAttrs(None, None, Some(<<40, 60>>), Some(<<400, 80>>), Some(12)),
     VOIAttrs(Some("LINEAR_EXACT"), None, Some(<<40>>), Some(<<400>>), Some(12)),
     VOIAttrs(Some("SIGMOID"), None, Some(<<40>>), Some(<<400>>), Some(12)),
     VOIAttrs(Some("LOG"), None, Some(<<40>>), Some(<<400>>), Some(12)),
     VOIAttrs(None, Some(LutItem(3, 1, 8, <<0, 128, 255>>, None)), None, None, Some(8)),
     VOIAttrs(None, Some(LutItem(3, 1, 12, <<0, 128, 255>>, None)), None, None, None)}

PhotometricSet == {None, Some("MONOCHROME1"), Some("MONOCHROME2"), Some("RGB")}

\* a record of the pipeline
DcmObj(m, v, pi, pr) ==
    [RescaleIntercept |-> m.RescaleIntercept, RescaleSlope |-> m.RescaleSlope,
     RescaleType |-> m.RescaleType, Modality |-> m.Modality,
     ModalityLUTSequence |-> m.ModalityLUTSequence,
     VOILUTFunction |-> v.VOILUTFunction, VOILUTSequence |-> v.VOILUTSequence,
     WindowCenter |-> v.WindowCenter, WindowWidth |-> v.WindowWidth,
     BitsStored |-> v.BitsStored,
     PhotometricInterpretation |-> pi, PixelRepresentation |-> pr]

\* a pixel array of dtype uint16
Pixels(values) == Image("uint16", [k \in DOMAIN values |-> Px(QInt(values[k]))])

WindowSet ==
    {WinStr("default"), WinStr("lung"), WinDict(Some(100), Some(201)),
     WinDict(Some(100), None)}

\* the window lists of length n
WindowLists(n) == [1..n -> WindowSet]

\* dcmtrans.py lines 30-32 and 39: the defaults of depth and window
DEPTH == 256
DefaultWindow == Some(<<WinStr("default")>>)

\* the arguments of a call: window is None or a sequence of windows when it is given
TransCall(dcmObj, image_data, depth, given, window) ==
    [dcmObj |-> dcmObj, image_data |-> image_data, depth |-> depth,
     window_given |-> given, window |-> window]

---------------------------------------------------------------------------
(* The pipeline as a state machine: a call of dcmtrans with arguments drawn from the
   sets above, then its result. *)

InitTrans ==
    /\ ReconIdle
    /\ RegistryIdle
    /\ FnIdle
    /\ trans_out = NotRun
    /\ \/ \E m \in ModalityAttrSet, v \in VOIAttrSet, pi \in PhotometricSet :
          \E pr \in {None, Some(0)}, depth \in {DEPTH, 16} :
          \E window \in {None} \cup {Some(w) : w \in WindowLists(0) \cup WindowLists(1)} :
          \E given \in BOOLEAN :
             /\ ~given => IsNone(window)
             /\ trans_in = TransCall(DcmObj(m, v, pi, pr), Pixels(<<24, 1100>>), depth,
                                     given, window)
       \/ \E m \in ModalityAttrSet, v \in VOIAttrSet :
          \E n \in 2..MaxWin :
          \E w \in WindowLists(n) :
             /\ IsNone(m.ModalityLUTSequence) /\ IsNone(v.VOILUTSequence)
             /\ ~IsNone(v.WindowCenter) => IsNone(v.VOILUTFunction)
             /\ trans_in = TransCall(DcmObj(m, v, Some("MONOCHROME1"), Some(0)),
                                     Pixels(<<24, 1100>>), DEPTH, TRUE, Some(w))

Dcmtrans ==
    /\ trans_in # NotRun
    /\ trans_out = NotRun
    /\ trans_out' = dcmtrans(trans_in.dcmObj, trans_in.image_data, trans_in.depth,
                             IF trans_in.window_given THEN trans_in.window
                             ELSE DefaultWindow)
    /\ UNCHANGED <<trans_in, recon_vars, registry_vars, fn_vars>>

NextTrans == Dcmtrans

SpecTrans == InitTrans /\ [][NextTrans]_vars

---------------------------------------------------------------------------
(* What the claims about the pipeline observe *)

TransDone == trans_out # NotRun
TransReturned == TransDone /\ trans_out.status = "ok"
\* the call names a list of windows
WindowsListed == trans_in.window_given /\ ~IsNone(trans_in.window)
Windows == Val(trans_in.window)
\* the modality stage of the call, run on its own
ModalityStage == modality_trans(trans_in.dcmObj, trans_in.image_data)
\* the call with window i as the only window requested
Single(i) ==
    dcmtrans(trans_in.dcmObj, trans_in.image_data, trans_in.depth, Some(<<Windows[i]>>))

\* the lists have one entry per window; each window has an image or an error, never
\* both, never neither; and they are those of the call with that window alone
PerWindow ==
    /\ Len(trans_out.image_data_list) = Len(Windows)
    /\ Len(trans_out.exception_list) = Len(Windows)
    /\ \A i \in 1..Len(Windows) :
          /\ IsNone(trans_out.image_data_list[i]) # IsNone(trans_out.exception_list[i])
          /\ trans_out.image_data_list[i] = Single(i).image_data_list[1]
          /\ trans_out.exception_list[i] = Single(i).exception_list[1]

\* C1 as stated: for any record and any list of n windows the call returns the two
\* lists of length n, window by window as if each were requested alone.
C1_ListsForAnyRecord ==
    (TransDone /\ WindowsListed) => (TransReturned /\ PerWindow)

\* C1: for a list of n windows, when the modality stage completes the call returns an
\* images list and an errors list of length n, for every i exactly one of images[i],
\* errors[i] is none and both are those of the call with window i alone; when the
\* modality stage raises, the call raises that error and returns no list.
C1_PerWindowIsolation ==
    (TransDone /\ WindowsListed) =>
        IF Returned(ModalityStage) THEN TransReturned /\ PerWindow
        ELSE trans_out = ModalityStage

\* a call in which a window fails, a later window succeeds, and two windows give
\* different images
C1_Witness ==
    /\ TransReturned
    /\ WindowsListed
    /\ \E i, j \in 1..Len(Windows) :
          /\ i < j
          /\ ~IsNone(trans_out.exception_list[i])
          /\ ~IsNone(trans_out.image_data_list[j])
    /\ \E i, j \in 1..Len(Windows) :
          /\ ~IsNone(trans_out.image_data_list[i])
          /\ ~IsNone(trans_out.image_data_list[j])
          /\ trans_out.image_data_list[i] # trans_out.image_data_list[j]

\* C10: called with the windows absent or None, the call makes a single pass without
\* the VOI stage and the PI stage: it returns the output of the modality stage as its
\* one image, with no error.
C10_NoWindowSinglePass ==
    (TransDone /\ IsNone(trans_in.window) /\ Returned(ModalityStage)) =>
        /\ TransReturned
        /\ trans_out.image_data_list = <<Some(ModalityStage.image)>>
        /\ trans_out.exception_list = <<None>>

\* the windows the call runs through: those listed, or the default when none is given
Requested == IF trans_in.window_given THEN Windows ELSE Val(DefaultWindow)

\* C11: the metadata returned holds the modality mode and the modality unit and, when
\* at least one window is requested, as 'voi' and 'pi' the record's VOI and PI
\* classification, whether or not a window's transform raised.
C11_MetadataOfRecord ==
    (TransReturned /\ (trans_in.window_given => ~IsNone(trans_in.window))) =>
        /\ trans_out.info.modality = modality_classifier(trans_in.dcmObj)
        /\ trans_out.info.modality_unit = ModalityStage.unit
        /\ Len(Requested) >= 1 =>
              /\ trans_out.info.voi = voi_classifier(trans_in.dcmObj)
              /\ trans_out.info.pi = pi_get_mode(trans_in.dcmObj)

---------------------------------------------------------------------------
(* The window transformations of trans_method.py as a state machine: a call of
   window_linear_trans or window_linear_exact_trans on a ramp of input values, then
   its result. *)

MaxCenter == 2              \* window centers are -MaxCenter..MaxCenter
MaxWidth == 4               \* window widths are -1..MaxWidth

\* a float64 image of the values center + k/2 around the window, in ascending order
FloatRamp(center) ==
    Image("float64", [i \in 1..(2 * MaxWidth + 5) |->
                          Px(Q(2 * center + i - (MaxWidth + 3), 2))])

\* a uint16 image of the values 0, 1, ... in ascending order
IntRamp == Image("uint16", [i \in 1..(MaxCenter + MaxWidth + 2) |-> Px(QInt(i - 1))])

WindowCall(op, image, window_center, window_width, depth) ==
    [op |-> op, image |-> image, window_center |-> window_center,
     window_width |-> window_width, depth |-> depth]

InitWindow ==
    /\ ReconIdle
    /\ RegistryIdle
    /\ TransIdle
    /\ fn_result = NotRun
    /\ \E op \in {"window_linear_trans", "window_linear_exact_trans"} :
       \E window_center \in -MaxCenter..MaxCenter :
       \E window_width \in -1..MaxWidth :
       \E depth \in {1, 2, 16, DEPTH} :
       \E image \in {FloatRamp(window_center), IntRamp} :
          fn_call = WindowCall(op, image, window_center, window_width, depth)

WindowLinear ==
    /\ fn_call # NotRun
    /\ fn_result = NotRun
    /\ fn_call.op = "window_linear_trans"
    /\ fn_result' = window_linear_trans(fn_call.image, fn_call.window_center,
                                        fn_call.window_width, fn_call.depth)
    /\ UNCHANGED <<fn_call, recon_vars, registry_vars, trans_vars>>

WindowLinearExact ==
    /\ fn_call # NotRun
    /\ fn_result = NotRun
    /\ fn_call.op = "window_linear_exact_trans"
    /\ fn_result' = window_linear_exact_trans(fn_call.image, fn_call.window_center,
                                              fn_call.window_width, fn_call.depth)
    /\ UNCHANGED <<fn_call, recon_vars, registry_vars, trans_vars>>

NextWindow == WindowLinear \/ WindowLinearExact

SpecWindow == InitWindow /\ [][NextWindow]_vars

\* what the claims about the window transformations observe
FnDone == fn_result # NotRun
WinIn(k) == PxVal(fn_call.image.px[k])
WinOut(k) == PxVal(fn_result.px[k])
WinPixels == DOMAIN fn_call.image.px
\* the window bounds of section C.11.2.1.2 of the DICOM standard, as the spec gives them
LowerBound == Q(2 * fn_call.window_center - fn_call.window_width, 2)
UpperBound ==
    IF fn_call.op = "window_linear_trans"
    THEN Q(2 * fn_call.window_center + fn_call.window_width - 2, 2)
    ELSE Q(2 * fn_call.window_center + fn_call.window_width, 2)
Top == QInt(fn_call.depth - 1)

\* the output is within [0, depth-1] and does not decrease as the input grows
WithinAndMonotonic ==
    /\ \A k \in WinPixels : QLe(QInt(0), WinOut(k)) /\ QLe(WinOut(k), Top)
    /\ \A j, k \in WinPixels : QLe(WinIn(j), WinIn(k)) => QLe(WinOut(j), WinOut(k))

AtCenter(k) == WinIn(k) = QInt(fn_call.window_center)

\* C13: for every center, width of at least 1 and depth, the input value equal to the
\* center is mapped to (depth-1)/2 by window_linear_exact_trans, and by
\* window_linear_trans to the value of its formula there, ((1/2)/(width-1) + 1/2)(depth-1)
\* limited to depth-1, which differs from (depth-1)/2 by the half-pixel offset.
C13_CenterToMidpoint ==
    (FnDone /\ fn_call.image.dtype = "float64" /\ fn_call.window_width >= 1) =>
        \A k \in WinPixels : AtCenter(k) =>
            IF fn_call.op = "window_linear_exact_trans"
            THEN WinOut(k) = QDiv(Top, QInt(2))
            ELSE /\ QLe(QDiv(Top, QInt(2)), WinOut(k))
                 /\ fn_call.window_width >= 2 =>
                       WinOut(k) = QMin(Top, QMul(QAdd(QDiv(Half, QInt(fn_call.window_width - 1)), Half), Top))

---------------------------------------------------------------------------
(* The photometric-interpretation handlers of pi_trans.py called on their own. A colour
   image holds, for every pixel, the sequence of its channel values. *)

\* pi_trans.py lines 361-417: the channels read are Y, CB, CR in this order, and the
\* channels stacked are G, CR + G, CB + G in this order
pi_ybr_rct(dcmObj, image_data, depth) ==
    LET clip(x) == QMax(QInt(0), QMin(QInt(256), x))
        G(p) == QSub(PxVal(p[1]), QInt(QFloor(QDiv(QAdd(PxVal(p[2]), PxVal(p[3])), QInt(4)))))
        rgb(p) == <<G(p), QAdd(PxVal(p[3]), G(p)), QAdd(PxVal(p[2]), G(p))>>
    IN  IF \E k \in DOMAIN image_data.px : Len(image_data.px[k]) # 3
        THEN Raise("ValueError", "image_data should has shape (...,H,W,3)")
        ELSE [status |-> "ok",
              image |-> Image(image_data.dtype,
                              [k \in DOMAIN image_data.px |->
                                  [c \in 1..3 |->
                                      Px(astype(clip(rgb(image_data.px[k])[c]),
                                                image_data.dtype))]])]

\* the largest value an unsigned dtype holds; uint32 holds every value of the model
DtypeMax(dtype) ==
    IF dtype = "uint8" THEN 255 ELSE IF dtype = "uint16" THEN 65535 ELSE 2147483647

\* numpy's unary minus on an array: an unsigned integer wraps modulo 2^bits
numpy_neg(image) ==
    Image(image.dtype,
          [k \in DOMAIN image.px |->
              IF IsUnsigned(image.dtype)
              THEN Px(QInt((0 - PxVal(image.px[k])[1]) % Pow2(DtypeBits(image.dtype))))
              ELSE Px(QSub(QInt(0), PxVal(image.px[k])))])

\* the dtype of an unsigned array combined with a Python int it cannot hold, under the
\* value-based casting of NumPy 1
promoted(dtype, n) ==
    IF n <= DtypeMax(dtype) THEN dtype ELSE IF n <= 65535 THEN "uint16" ELSE "uint32"

\* numpy's array + n (sign = 1) and array - n (sign = -1) for a Python int n >= 0.
\* A float64 array is exact. An unsigned array that can hold n wraps modulo 2^bits.
\* When it cannot hold n the outcome depends on the NumPy installed: NumPy 1 computes
\* in the promoted dtype (wide enough for every value of the model), NumPy 2 raises
\* OverflowError.
numpy_arith(numpy, image, sign, n) ==
    IF image.dtype = "float64"
    THEN [status |-> "ok",
          image |-> Image(image.dtype,
                          [k \in DOMAIN image.px |->
                              Px(QAdd(PxVal(image.px[k]), QInt(sign * n)))])]
    ELSE IF n > DtypeMax(image.dtype) /\ numpy = "NumPy 2"
    THEN Raise("OverflowError", "Python integer out of bounds")
    ELSE [status |-> "ok",
          image |-> Image(promoted(image.dtype, n),
                          [k \in DOMAIN image.px |->
                              IF promoted(image.dtype, n) \in {"uint8", "uint16"}
                              THEN Px(QInt((PxVal(image.px[k])[1] + sign * n)
                                               % Pow2(DtypeBits(promoted(image.dtype, n)))))
                              ELSE Px(QInt(PxVal(image.px[k])[1] + sign * n))])]

\* pi_trans.py line 78, -image_data + depth - 1, operation by operation
pi_monochrome1_numpy(numpy, dcmObj, image_data, depth) ==
    IF Returned(numpy_arith(numpy, numpy_neg(image_data), 1, depth))
    THEN numpy_arith(numpy, numpy_arith(numpy, numpy_neg(image_data), 1, depth).image, -1, 1)
    ELSE numpy_arith(numpy, numpy_neg(image_data), 1, depth)

MaxChannel == 2             \* channel values are 0..MaxChannel and 254, 255

ChannelSet == (0..MaxChannel) \cup {254, 255}

\* the YBR_RCT encoding of a colour, PS3.3 C.7.6.3.1.2 as quoted in pi_trans.py lines
\* 386-388: Y = floor((R + 2G + B) / 4), CB = B - G, CR = R - G
ybr_rct_of(rgb) ==
    <<Px(QInt((rgb[1] + 2 * rgb[2] + rgb[3]) \div 4)),
      Px(QInt(rgb[3] - rgb[2])),
      Px(QInt(rgb[1] - rgb[2]))>>

MaxGrey == 2                \* grey values are within MaxGrey of 0 or of depth - 1

DepthSet == {1, 2, 16, DEPTH, 65536}

\* the values from 0 to depth - 1 that the dtype can hold
GreySet(depth, dtype) ==
    {x \in (0..MaxGrey) \cup {depth - 1 - k : k \in 0..MaxGrey} :
        /\ 0 <= x
        /\ x <= depth - 1
        /\ dtype # "float64" => x <= DtypeMax(dtype)}

MonoCall(numpy, image, depth) ==
    [op |-> "pi_monochrome1", numpy |-> numpy,
     dcmObj |-> [PhotometricInterpretation |-> Some("MONOCHROME1")],
     image |-> image, depth |-> depth]

YbrCall(image, depth, rgb) ==
    [op |-> "pi_ybr_rct", dcmObj |-> [PhotometricInterpretation |-> Some("YBR_RCT")],
     image |-> image, depth |-> depth, rgb |-> rgb]

InitPI ==
    /\ ReconIdle
    /\ RegistryIdle
    /\ TransIdle
    /\ fn_result = NotRun
    /\ \/ \E R \in ChannelSet, G \in ChannelSet, B \in ChannelSet :
          \E dtype \in {"int16", "float64"} :
             fn_call = YbrCall(Image(dtype, <<ybr_rct_of(<<R, G, B>>)>>), DEPTH, <<R, G, B>>)
       \/ \E Y \in ChannelSet :
             fn_call = YbrCall(Image("int16", <<<<Px(QInt(Y))>>>>), DEPTH, <<Y, Y, Y>>)
       \/ \E numpy \in {"NumPy 1", "NumPy 2"}, depth \in DepthSet :
          \E dtype \in {"uint8", "uint16", "float64"} :
          \E x \in GreySet(depth, dtype) :
             fn_call = MonoCall(numpy, Image(dtype, <<Px(QInt(x))>>), depth)

YbrRct ==
    /\ fn_call # NotRun
    /\ fn_result = NotRun
    /\ fn_call.op = "pi_ybr_rct"
    /\ fn_result' = pi_ybr_rct(fn_call.dcmObj, fn_call.image, fn_call.depth)
    /\ UNCHANGED <<fn_call, recon_vars, registry_vars, trans_vars>>

\* pi_monochrome1 called on the image
Monochrome1 ==
    /\ fn_call # NotRun
    /\ fn_result = NotRun
    /\ fn_call.op = "pi_monochrome1"
    /\ fn_result' = [calls |-> 1,
                     last |-> pi_monochrome1_numpy(fn_call.numpy, fn_call.dcmObj,
                                                   fn_call.image, fn_call.depth)]
    /\ UNCHANGED <<fn_call, recon_vars, registry_vars, trans_vars>>

\* pi_monochrome1 called with the same depth on the image the first call returned
Monochrome1Again ==
    /\ fn_call # NotRun
    /\ fn_result # NotRun
    /\ fn_call.op = "pi_monochrome1"
    /\ fn_result.calls = 1
    /\ Returned(fn_result.last)
    /\ fn_result' = [calls |-> 2,
                     first |-> fn_result.last,
                     last |-> pi_monochrome1_numpy(fn_call.numpy, fn_call.dcmObj,
                                                   fn_result.last.image, fn_call.depth)]
    /\ UNCHANGED <<fn_call, recon_vars, registry_vars, trans_vars>>

NextPI == YbrRct \/ Monochrome1 \/ Monochrome1Again

SpecPI == InitPI /\ [][NextPI]_vars

\* the channels of the only pixel of the image returned, as integers
OutChannels == [c \in 1..3 |-> PxVal(fn_result.image.px[1][c])]
RGBIn == fn_call.rgb
ThreeChannels == Len(fn_call.image.px[1]) = 3

\* C14: the YBR_RCT encoding of any (R,G,B) in [0,255]^3, passed through pi_ybr_rct,
\* comes back as the original R, G, B in this channel order.
C14_RoundTripRGB ==
    (FnDone /\ fn_call.op = "pi_ybr_rct" /\ ThreeChannels) =>
        /\ Returned(fn_result)
        /\ OutChannels = [c \in 1..3 |-> QInt(RGBIn[c])]

\* what the claims about pi_monochrome1 observe
MonoCalled(n) == FnDone /\ fn_call.op = "pi_monochrome1" /\ fn_result.calls = n
MonoIn == PxVal(fn_call.image.px[1])
MonoOut == PxVal(fn_result.last.image.px[1])

\* C15: for every depth and every pixel value x in [0, depth-1], pi_monochrome1 returns
\* depth-1-x, which is within [0, depth-1], and a second call with the same depth
\* returns x.
C15_Involution ==
    /\ MonoCalled(1) =>
          /\ Returned(fn_result.last)
          /\ MonoOut = QSub(QInt(fn_call.depth - 1), MonoIn)
          /\ QLe(QInt(0), MonoOut) /\ QLe(MonoOut, QInt(fn_call.depth - 1))
    /\ MonoCalled(2) =>
          /\ Returned(fn_result.last)
          /\ MonoOut = MonoIn

---------------------------------------------------------------------------
(* The classifiers, the stages and the window resolution called on their own. *)

\* records that differ in the attributes the VOI classifier reads
VOIFunctionSet ==
    {None, Some("LINEAR"), Some("LINEAR_EXACT"), Some("SIGMOID"), Some("LOG")}
VOILutSet ==
    {None, Some(LutItem(3, 1, 8, <<0, 128, 255>>, None)),
     Some(LutItem(3, 1, 12, <<0, 128, 255>>, None)),
     Some(DecodedLutItem(3, 1, 8, <<0, 128, 255>>, None)),
     Some(DecodedLutItem(3, 1, 12, <<0, 128, 255>>, None))}
CenterSet == {None, Some(<<40>>), Some(<<40, 60>>)}
WidthSet == {None, Some(<<400>>), Some(<<400, 80>>)}
BitsSet == {None, Some(8), Some(12)}

\* a record without modality attributes
PlainModality == ModalityAttrs(None, None, None, Some("MR"), None)

StageImage == Pixels(<<0, 40, 300>>)

ClassifierCall(op, dcmObj) == [op |-> op, dcmObj |-> dcmObj]

VoiTransCall(dcmObj, image_data, depth, unit, window) ==
    [op |-> "voi_trans", dcmObj |-> dcmObj, image |-> image_data, depth |-> depth,
     unit |-> unit, window |-> window]

\* the windows and the modality units _get_window is called with
StageWindowSet ==
    {WinStr("default"), WinStr("lung"), WinStr("bone"), WinStr("liver"),
     WinDict(Some(100), Some(201)), WinDict(Some(100), None), WinDict(None, None)}
UnitSet == {None, Some("HU"), Some("Hounsfield Unit"), Some("US")}

GetWindowCall(dcmObj, window, unit) ==
    [op |-> "_get_window", dcmObj |-> dcmObj, window |-> window, unit |-> unit]

\* records that differ in the attributes the modality stage reads
InterceptSet == {None, Some(0), Some(-1024)}
SlopeSet == {None, Some(1), Some(2)}
RescaleTypeSet == {None, Some("US")}
ModalityLutSet ==
    {None, Some(LutItem(4, 22, 16, <<5, 10, 20, 30>>, Some("HU"))),
     Some(LutItem(4, 22, 12, <<5, 10, 20, 30>>, None)),
     Some(DecodedLutItem(4, 22, 16, <<5, 10, 20, 30>>, Some("HU"))),
     Some(DecodedLutItem(4, 22, 12, <<5, 10, 20, 30>>, None))}

ModalityTransCall(dcmObj, image_data) ==
    [op |-> "modality_trans", dcmObj |-> dcmObj, image |-> image_data]

MaxCount == 3               \* a LUT holds 1..MaxCount entries

\* the table 10, 20, ... of a LUT with count entries
LutRamp(count) == [k \in 1..count |-> 10 * k]

\* an image of one pixel and the descriptor dtype it is looked up with: an unsigned
\* image with an unsigned descriptor, a float image with either
LutOperandSet ==
    {<<"uint16", v, "uint16", first>> : v \in 0..(MaxCount + 3), first \in {0, 2}}
    \cup {<<"float64", v, "uint16", first>> : v \in -1..(MaxCount + 3), first \in {0, 2}}
    \cup {<<"float64", v, "int16", first>> : v \in -2..(MaxCount + 3), first \in {-1, 2}}

LutTransCall(image, lut_descriptor, lut_data, scale_factor) ==
    [op |-> "lut_trans", image |-> image, lut_descriptor |-> lut_descriptor,
     lut_data |-> lut_data, scale_factor |-> scale_factor]

VoiLutTransCall(dcmObj, image_data, depth) ==
    [op |-> "voi_lut_trans", dcmObj |-> dcmObj, image |-> image_data, depth |-> depth,
     window |-> WinStr("default"), unit |-> None]

InitStage ==
    /\ ReconIdle
    /\ RegistryIdle
    /\ TransIdle
    /\ fn_result = NotRun
    /\ \/ \E function \in VOIFunctionSet, lut \in VOILutSet, wc \in CenterSet :
          \E ww \in WidthSet, bits \in BitsSet :
             \/ fn_call = ClassifierCall("voi_classifier",
                     DcmObj(PlainModality, VOIAttrs(function, lut, wc, ww, bits),
                            None, Some(0)))
             \/ fn_call = VoiTransCall(
                     DcmObj(PlainModality, VOIAttrs(function, lut, wc, ww, bits),
                            None, Some(0)),
                     StageImage, DEPTH, None, WinStr("default"))
       \/ \E intercept \in InterceptSet, slope \in SlopeSet, type \in RescaleTypeSet :
          \E mod \in {None, Some("CT")}, lut \in ModalityLutSet, pr \in {None, Some(0)} :
             \/ fn_call = ClassifierCall("modality_classifier",
                     DcmObj(ModalityAttrs(intercept, slope, type, mod, lut),
                            VOIAttrs(None, None, None, None, None), None, pr))
             \/ fn_call = ModalityTransCall(
                     DcmObj(ModalityAttrs(intercept, slope, type, mod, lut),
                            VOIAttrs(None, None, None, None, None), None, pr),
                     StageImage)
       \/ \E count \in 1..MaxCount, o \in LutOperandSet :
             fn_call = LutTransCall(
                     Image(o[1], <<Px(QInt(o[2]))>>),
                     [dtype |-> o[3], count |-> count, first |-> o[4], bits |-> 16],
                     Image("uint16", [k \in 1..count |-> Px(QInt(LutRamp(count)[k]))]),
                     None)
       \/ \E count \in 1..MaxCount, o \in LutOperandSet, bits \in BitsSet :
          \E depth \in {16, DEPTH} :
             fn_call = VoiLutTransCall(
                     DcmObj(PlainModality,
                            VOIAttrs(None, Some(LutItem(count, o[4], 16, LutRamp(count), None)),
                                     None, None, bits),
                            None, IF o[3] = "uint16" THEN Some(0) ELSE Some(1)),
                     Image(o[1], <<Px(QInt(o[2]))>>), depth)
       \/ \E wc \in CenterSet, ww \in WidthSet, bits \in BitsSet :
          \E window \in StageWindowSet, unit \in UnitSet :
             fn_call = GetWindowCall(
                     DcmObj(PlainModality, VOIAttrs(None, None, wc, ww, bits),
                            None, Some(0)),
                     window, unit)

\* VOITransManager.get_mode
VoiClassifier ==
    /\ fn_call # NotRun
    /\ fn_result = NotRun
    /\ fn_call.op = "voi_classifier"
    /\ fn_result' = [status |-> "ok", mode |-> voi_classifier(fn_call.dcmObj)]
    /\ UNCHANGED <<fn_call, recon_vars, registry_vars, trans_vars>>

VoiTrans ==
    /\ fn_call # NotRun
    /\ fn_result = NotRun
    /\ fn_call.op = "voi_trans"
    /\ fn_result' = voi_trans(fn_call.dcmObj, fn_call.image, fn_call.depth,
                              fn_call.unit, fn_call.window)
    /\ UNCHANGED <<fn_call, recon_vars, registry_vars, trans_vars>>

GetWindow ==
    /\ fn_call # NotRun
    /\ fn_result = NotRun
    /\ fn_call.op = "_get_window"
    /\ fn_result' = get_window(fn_call.dcmObj, fn_call.window, fn_call.unit)
    /\ UNCHANGED <<fn_call, recon_vars, registry_vars, trans_vars>>

\* ModalityTransManager.get_mode
ModalityClassifier ==
    /\ fn_call # NotRun
    /\ fn_result = NotRun
    /\ fn_call.op = "modality_classifier"
    /\ fn_result' = [status |-> "ok", mode |-> modality_classifier(fn_call.dcmObj)]
    /\ UNCHANGED <<fn_call, recon_vars, registry_vars, trans_vars>>

ModalityTrans ==
    /\ fn_call # NotRun
    /\ fn_result = NotRun
    /\ fn_call.op = "modality_trans"
    /\ fn_result' = modality_trans(fn_call.dcmObj, fn_call.image)
    /\ UNCHANGED <<fn_call, recon_vars, registry_vars, trans_vars>>

LutTrans ==
    /\ fn_call # NotRun
    /\ fn_result = NotRun
    /\ fn_call.op = "lut_trans"
    /\ fn_result' = lut_trans(fn_call.image, fn_call.lut_descriptor, fn_call.lut_data,
                              fn_call.scale_factor)
    /\ UNCHANGED <<fn_call, recon_vars, registry_vars, trans_vars>>

VoiLutTrans ==
    /\ fn_call # NotRun
    /\ fn_result = NotRun
    /\ fn_call.op = "voi_lut_trans"
    /\ fn_result' = voi_lut_trans(fn_call.dcmObj, fn_call.image, fn_call.depth,
                                  fn_call.window, fn_call.unit)
    /\ UNCHANGED <<fn_call, recon_vars, registry_vars, trans_vars>>

NextStage ==
    \/ VoiClassifier
    \/ VoiTrans
    \/ GetWindow
    \/ ModalityClassifier
    \/ ModalityTrans
    \/ LutTrans
    \/ VoiLutTrans

SpecStage == InitStage /\ [][NextStage]_vars

\* what the claims about the classifiers observe
Called(op) == FnDone /\ fn_call.op = op
Has(attr) == ~IsNone(fn_call.dcmObj[attr])

\* C16: the VOI classifier returns TABLE when a VOI LUT sequence is present and
\* window-center is absent; with window-center present the declared VOI-LUT-function
\* name, or LINEAR if none is declared; with neither present it returns none, and the
\* VOI stage returns the image unchanged.
C16_VOIClassification ==
    /\ Called("voi_classifier") =>
          fn_result.mode =
             IF Has("VOILUTSequence") /\ ~Has("WindowCenter") THEN Some("TABLE")
             ELSE IF Has("WindowCenter")
             THEN IF Has("VOILUTFunction") THEN fn_call.dcmObj.VOILUTFunction
                  ELSE Some("LINEAR")
             ELSE None
    /\ (Called("voi_trans") /\ ~Has("VOILUTSequence") /\ ~Has("WindowCenter")) =>
          /\ Returned(fn_result)
          /\ fn_result.mode = None
          /\ fn_result.image = fn_call.image

\* what the claims about _get_window observe
Gives(wc, ww) == Returned(fn_result) /\ fn_result.wc = wc /\ fn_result.ww = ww
FirstCenter == Val(fn_call.dcmObj.WindowCenter)[1]
FirstWidth == Val(fn_call.dcmObj.WindowWidth)[1]
RecordHasWindow == Has("WindowCenter") /\ Has("WindowWidth")
DictGiven == fn_call.window.kind = "dict"
DefaultOrNoUnit == fn_call.window.name = "default" \/ IsNone(fn_call.unit)
PresetOrDefult ==
    IF fn_call.window.name \in PresetNames THEN PRESET_WINDOW(fn_call.window.name)
    ELSE <<0, 2000>>

\* the first two sources of _get_window and its last one
DictThenRecordThenBits ==
    /\ (DictGiven /\ ~IsNone(fn_call.window.window_center)
                  /\ ~IsNone(fn_call.window.window_width)) =>
          Gives(Val(fn_call.window.window_center), Val(fn_call.window.window_width))
    /\ (~DictGiven /\ DefaultOrNoUnit /\ RecordHasWindow) =>
          Gives(FirstCenter, FirstWidth)
    /\ (~DictGiven /\ DefaultOrNoUnit /\ ~RecordHasWindow /\ Has("BitsStored")) =>
          Gives(2 ^ (Val(fn_call.dcmObj.BitsStored) - 1), 2 ^ Val(fn_call.dcmObj.BitsStored))

C18_ValueErrorOnly ==
    Called("_get_window") =>
        \/ Returned(fn_result) /\ fn_result.wc \in Int /\ fn_result.ww \in Int
        \/ fn_result.status = "ValueError"

\* C19: the modality classifier returns for every record: TABLE iff a modality LUT
\* sequence is present and rescale-intercept is absent, LINEAR iff rescale-intercept is
\* present, none otherwise; for a record classified none the modality stage returns
\* the image unchanged with no unit.
C19_ModalityClassification ==
    /\ Called("modality_classifier") =>
          /\ Returned(fn_result)
          /\ fn_result.mode \in {Some("TABLE"), Some("LINEAR"), None}
          /\ fn_result.mode = Some("TABLE") <=>
                (Has("ModalityLUTSequence") /\ ~Has("RescaleIntercept"))
          /\ fn_result.mode = Some("LINEAR") <=> Has("RescaleIntercept")
          /\ fn_result.mode = None <=>
                (~Has("ModalityLUTSequence") /\ ~Has("RescaleIntercept"))
    /\ (Called("modality_trans") /\ ~Has("ModalityLUTSequence")
            /\ ~Has("RescaleIntercept")) =>
          /\ Returned(fn_result)
          /\ fn_result.mode = None
          /\ fn_result.image = fn_call.image
          /\ fn_result.unit = None

\* a record with both a LUT sequence and a rescale intercept (of 0) classified LINEAR
C19_Witness ==
    /\ Called("modality_classifier")
    /\ Has("ModalityLUTSequence")
    /\ fn_call.dcmObj.RescaleIntercept = Some(0)
    /\ fn_result.mode = Some("LINEAR")

\* what the claims about the LUT look-up observe
Clamp(x, lo, hi) == IF x < lo THEN lo ELSE IF x > hi THEN hi ELSE x
LutIn == PxVal(fn_call.image.px[1])[1]
LutOut == PxVal(fn_result.image.px[1])
VoiLut == Val(fn_call.dcmObj.VOILUTSequence)
StoredBits ==
    IF Has("BitsStored") THEN Val(fn_call.dcmObj.BitsStored) ELSE DefaultBitsStored

\* C20: the TABLE transform maps every input value v to data[clamp(v - first, 0,
\* count-1)] (data counted from 0), and the VOI TABLE variant multiplies the entry
\* looked up by depth / 2^bits_stored.
C20_ClampedLookup ==
    /\ Called("lut_trans") =>
          /\ Returned(fn_result)
          /\ LutOut = PxVal(fn_call.lut_data.px[
                          Clamp(LutIn - fn_call.lut_descriptor.first, 0,
                                fn_call.lut_descriptor.count - 1) + 1])
    /\ Called("voi_lut_trans") =>
          /\ Returned(fn_result)
          /\ LutOut = QMul(QInt(VoiLut.LUTData[
                                   Clamp(LutIn - VoiLut.LUTDescriptor[2], 0,
                                         VoiLut.LUTDescriptor[1] - 1) + 1]),
                           Q(fn_call.depth, 2 ^ StoredBits))

\* the bits per entry of the LUT descriptor of the record
LutBits(attr) == Val(fn_call.dcmObj[attr]).LUTDescriptor[3]

---------------------------------------------------------------------------
(* The batch drivers: collect_dicoms_reconstuct of scan.py and reconstruct of
   dcmtrans.py. A batch is the sequence of the series collected, each the series
   reconstruct_series is called with. *)

MaxSeries == 2              \* series in one batch are 1..MaxSeries

\* series that reconstruct, and series that fail with each kind of error
BatchSeriesSet ==
    {CTSeries(2, <<<<IopAxial, <<0, 0, 0>>>>, <<IopAxial, <<0, 0, 1>>>>>>),
     CTSeries(2, <<<<IopAxial, <<0, 0, 1>>>>, <<IopAxial, <<0, 0, 0>>>>>>),
     GeomSeries(2, {1, 2}, IopAxial, IopAxial, <<GeomBase, Geom(3, 2, <<5000, 5000>>)>>),
     MixedSeries(2, <<<<Some("CT"), TRUE>>, <<Some("MR"), TRUE>>>>),
     MixedSeries(2, <<<<Some("MR"), TRUE>>, <<Some("MR"), FALSE>>>>),
     MixedSeries(1, <<<<Some("MR"), TRUE>>>>)}

\* scan.py lines 48-65: the series that reconstruct, by their key
collect_dicoms_reconstuct(collections, modality_kw) ==
    [status |-> "ok",
     series_dict |->
        [key \in {k \in DOMAIN collections :
                     Returned(reconstruct_series(collections[k], modality_kw))} |->
            reconstruct_series(collections[key], modality_kw)]]

\* dcmtrans.py lines 204-222: the entry of a series whose reconstruction raised
reconstruct_error(series_no, inst_dict, raised) ==
    [info |-> [series_no |-> series_no, N_slice |-> Len(inst_dict), ERROR |-> raised],
     objs |-> <<>>]

\* dcmtrans.py lines 149-253. rec_data is a RecInfo, a pydantic model, which has no
\* __getitem__: rec_data['description'] at line 226, outside the try, raises TypeError
\* for the first series that reconstructs.
reconstruct(tank) ==
    IF \E k \in DOMAIN tank : Returned(reconstruct_series(tank[k], None))
    THEN Raise("TypeError", "'RecInfo' object is not subscriptable")
    ELSE [status |-> "ok",
          result |-> [series_no \in DOMAIN tank |->
                         reconstruct_error(series_no, tank[series_no],
                                           reconstruct_series(tank[series_no], None))]]

BatchCall(op, batch) == [op |-> op, batch |-> batch]

InitBatch ==
    /\ ReconIdle
    /\ RegistryIdle
    /\ TransIdle
    /\ fn_result = NotRun
    /\ \E op \in {"collect_dicoms_reconstuct", "reconstruct"} :
       \E n \in 1..MaxSeries :
       \E batch \in [1..n -> BatchSeriesSet] :
          fn_call = BatchCall(op, batch)

CollectDicomsReconstuct ==
    /\ fn_call # NotRun
    /\ fn_result = NotRun
    /\ fn_call.op = "collect_dicoms_reconstuct"
    /\ fn_result' = collect_dicoms_reconstuct(fn_call.batch, None)
    /\ UNCHANGED <<fn_call, recon_vars, registry_vars, trans_vars>>

Reconstruct ==
    /\ fn_call # NotRun
    /\ fn_result = NotRun
    /\ fn_call.op = "reconstruct"
    /\ fn_result' = reconstruct(fn_call.batch)
    /\ UNCHANGED <<fn_call, recon_vars, registry_vars, trans_vars>>

NextBatch == CollectDicomsReconstuct \/ Reconstruct

SpecBatch == InitBatch /\ [][NextBatch]_vars

\* what the claim about the batch observes
SeriesOf(k) == reconstruct_series(fn_call.batch[k], None)
Succeeded == {k \in DOMAIN fn_call.batch : Returned(SeriesOf(k))}
\* the series the batch result holds a reconstruction for
Reconstructed ==
    IF fn_call.op = "collect_dicoms_reconstuct" THEN DOMAIN fn_result.series_dict
    ELSE {k \in DOMAIN fn_result.result : "ERROR" \notin DOMAIN fn_result.result[k].info}

\* C22: a series whose reconstruction raises does not abort the batch: the batch
\* driver returns, and its result holds a reconstruction for exactly the series whose
\* reconstruct_series call succeeded.
C22_BatchSurvivesFailures ==
    FnDone =>
        /\ Returned(fn_result)
        /\ Reconstructed = Succeeded

---------------------------------------------------------------------------
(* volume.py: build_volume_from_recon_info, called without resize. A slice of the
   reconstruction is the record stored at its index together with the pixel array
   read for it (read_pixel(path), or dcmobj.pixel_array when the path is not a
   file). An image of the model is one-dimensional, its shape is its length. *)

\* numpy.asanyarray(x).shape for an element of img_list: None is a 0-d object array
stack_shape(x) == IF IsNone(x) THEN <<>> ELSE <<Len(Val(x).px)>>

\* the dtype numpy.stack gives the arrays it joins
stack_dtype(img_list) ==
    IF \A k \in DOMAIN img_list : IsNone(img_list[k]) THEN "object"
    ELSE IF \E k \in DOMAIN img_list : ~IsNone(img_list[k]) /\ Val(img_list[k]).dtype = "float64"
    THEN "float64"
    ELSE IF \E k \in DOMAIN img_list : ~IsNone(img_list[k]) /\ Val(img_list[k]).dtype = "uint16"
    THEN "uint16"
    ELSE "uint8"

\* volume.py line 66, numpy.stack: no arrays and arrays of different shapes are refused;
\* a list holding None only is stacked into an object array of None
np_stack(img_list) ==
    IF Len(img_list) = 0 THEN Raise("ValueError", "need at least one array to stack")
    ELSE IF \E j, k \in DOMAIN img_list : stack_shape(img_list[j]) # stack_shape(img_list[k])
    THEN Raise("ValueError", "all input arrays must have the same shape")
    ELSE [status |-> "ok",
          volume |-> [dtype |-> stack_dtype(img_list), slices |-> img_list]]

\* lines 44-45: a window given is passed on as a list of one window, None as None
volume_window(window) == IF IsNone(window) THEN None ELSE Some(<<Val(window)>>)

\* lines 49-62: what dcmtrans returns or raises for the slice at idx
volume_slice(recon_info, idx, depth, window) ==
    dcmtrans(recon_info.index_dicom_dict[idx].dcmObj,
             recon_info.index_dicom_dict[idx].pixel_array, depth, volume_window(window))

\* volume.py lines 17-67 with resize = None: the first slice for which dcmtrans raises
\* ends the call; otherwise the first image of every slice is stacked
build_volume_from_recon_info(recon_info, depth, window) ==
    IF \E k \in DOMAIN recon_info.index_list :
          ~Returned(volume_slice(recon_info, recon_info.index_list[k], depth, window))
    THEN volume_slice(recon_info,
                      recon_info.index_list[
                         CHOOSE k \in DOMAIN recon_info.index_list :
                            /\ ~Returned(volume_slice(recon_info, recon_info.index_list[k],
                                                      depth, window))
                            /\ \A j \in 1..(k - 1) :
                                  Returned(volume_slice(recon_info, recon_info.index_list[j],
                                                        depth, window))],
                      depth, window)
    ELSE np_stack([k \in DOMAIN recon_info.index_list |->
                      volume_slice(recon_info, recon_info.index_list[k],
                                   depth, window).image_data_list[1]])

MaxSlices == 2              \* slices of a reconstruction are 0..MaxSlices

Slice(m, v, values) ==
    [dcmObj |-> DcmObj(m, v, Some("MONOCHROME2"), Some(0)), pixel_array |-> Pixels(values)]

\* slices with a window of their own and two or three pixels, a rescaled slice, a
\* slice without window and BitsStored (its default window raises in the VOI stage)
\* and a slice whose modality stage raises
SliceSet ==
    {Slice(PlainModality, VOIAttrs(None, None, Some(<<40>>), Some(<<400>>), Some(12)),
           <<0, 300>>),
     Slice(PlainModality, VOIAttrs(None, None, Some(<<40>>), Some(<<400>>), Some(12)),
           <<0, 40, 300>>),
     Slice(ModalityAttrs(Some(-1024), Some(1), None, Some("CT"), None),
           VOIAttrs(None, None, Some(<<40>>), Some(<<400>>), Some(12)), <<1000, 1100>>),
     Slice(PlainModality, VOIAttrs(None, None, None, None, None), <<0, 300>>),
     Slice(ModalityAttrs(Some(-1024), None, None, Some("CT"), None),
           VOIAttrs(None, None, Some(<<40>>), Some(<<400>>), Some(12)), <<0, 300>>)}

\* the index lists of n slices: ascending and descending
IndexOrders(n) == {[k \in 1..n |-> k], [k \in 1..n |-> n + 1 - k]}

VolumeWindowSet ==
    {None, Some(WinStr("default")), Some(WinStr("lung")), Some(WinDict(Some(100), Some(201)))}

VolumeCall(recon_info, depth, window) ==
    [op |-> "build_volume_from_recon_info", rec_info |-> recon_info, depth |-> depth,
     window |-> window]

InitVolume ==
    /\ ReconIdle
    /\ RegistryIdle
    /\ TransIdle
    /\ fn_result = NotRun
    /\ \E n \in 0..MaxSlices :
       \E index_list \in IndexOrders(n) :
       \E slices \in [1..n -> SliceSet] :
       \E window \in VolumeWindowSet :
          fn_call = VolumeCall([index_list |-> index_list, index_dicom_dict |-> slices],
                               DEPTH, window)

BuildVolume ==
    /\ fn_call # NotRun
    /\ fn_result = NotRun
    /\ fn_call.op = "build_volume_from_recon_info"
    /\ fn_result' = build_volume_from_recon_info(fn_call.rec_info, fn_call.depth,
                                                 fn_call.window)
    /\ UNCHANGED <<fn_call, recon_vars, registry_vars, trans_vars>>

NextVolume == BuildVolume

SpecVolume == InitVolume /\ [][NextVolume]_vars

\* what the claims about the volume observe
VolIdx == fn_call.rec_info.index_list
SliceAt(k) == fn_call.rec_info.index_dicom_dict[VolIdx[k]]
\* the pipeline output for slice k: with a window, the image dcmtrans lists for it;
\* with window none, the image of the modality stage; None when there is no image
PipelineImage(k) ==
    IF IsNone(fn_call.window)
    THEN IF Returned(modality_trans(SliceAt(k).dcmObj, SliceAt(k).pixel_array))
         THEN Some(modality_trans(SliceAt(k).dcmObj, SliceAt(k).pixel_array).image)
         ELSE None
    ELSE IF Returned(dcmtrans(SliceAt(k).dcmObj, SliceAt(k).pixel_array, fn_call.depth,
                              Some(<<Val(fn_call.window)>>)))
         THEN dcmtrans(SliceAt(k).dcmObj, SliceAt(k).pixel_array, fn_call.depth,
                       Some(<<Val(fn_call.window)>>)).image_data_list[1]
         ELSE None
AllImages == \A k \in DOMAIN VolIdx : ~IsNone(PipelineImage(k))
SameShape ==
    \A j, k \in DOMAIN VolIdx :
        Len(Val(PipelineImage(j)).px) = Len(Val(PipelineImage(k)).px)

\* C23: for a reconstruction of at least one slice whose slices all have a pipeline
\* output, build_volume_from_recon_info returns an array of as many slices as
\* index_list has entries, the k-th being the pipeline output for the record stored at
\* index_list[k], when the outputs have one shape, and raises when they have not.
C23_VolumeInIndexOrder ==
    (Called("build_volume_from_recon_info") /\ Len(VolIdx) >= 1 /\ AllImages) =>
        IF SameShape
        THEN /\ Returned(fn_result)
             /\ Len(fn_result.volume.slices) = Len(VolIdx)
             /\ \A k \in DOMAIN VolIdx :
                   Val(fn_result.volume.slices[k]).px = Val(PipelineImage(k)).px
        ELSE ~Returned(fn_result)

\* the pipeline raised for slice k, or listed no image or the image None for it
SliceFailed(k) ==
    \/ ~Returned(volume_slice(fn_call.rec_info, VolIdx[k], fn_call.depth, fn_call.window))
    \/ Len(volume_slice(fn_call.rec_info, VolIdx[k], fn_call.depth,
                        fn_call.window).image_data_list) = 0
    \/ IsNone(volume_slice(fn_call.rec_info, VolIdx[k], fn_call.depth,
                           fn_call.window).image_data_list[1])

\* C30: build_volume_from_recon_info raises, and returns no volume, whenever the
\* pipeline reported an error or returned no image for some slice, also when it did
\* so for every slice.
C30_NoVolumeOfFailedSlices ==
    (Called("build_volume_from_recon_info") /\ \E k \in DOMAIN VolIdx : SliceFailed(k)) =>
        ~Returned(fn_result)

\* ---------------------------------------------------------------------------
\* dcm_imread.py: read_pixel and its three readers
\* ---------------------------------------------------------------------------

\* the list the loop of read_pixel iterates over
Readers == <<"read_pixel_pydicom", "read_pixel_sitk", "read_pixel_bytes">>

\* what one reader does with the file: it raises an Exception, or returns an array
ReaderRaises(exc) == [raised |-> TRUE, exc |-> exc]
ReaderReturns(img_arr) == [raised |-> FALSE, img_arr |-> img_arr]

\* the for / try / except / else: break / else: return return_on_fail of read_pixel,
\* from reader i on; logged are the exceptions passed to logger.warning so far
RECURSIVE read_pixel_loop(_, _, _, _)
read_pixel_loop(readers, return_on_fail, i, logged) ==
    IF i > Len(Readers)
    THEN [status |-> "ok", value |-> return_on_fail, on_fail |-> TRUE,
          invoked |-> Readers, logged |-> logged]
    ELSE IF readers[i].raised
    THEN read_pixel_loop(readers, return_on_fail, i + 1, Append(logged, readers[i].exc))
    ELSE [status |-> "ok", value |-> Some(readers[i].img_arr), on_fail |-> FALSE,
          invoked |-> SubSeq(Readers, 1, i), logged |-> logged]

read_pixel_skip_pydicom(readers, return_on_fail) ==
    read_pixel_loop(readers, return_on_fail, 2, <<>>)
read_pixel(readers, return_on_fail) ==
    read_pixel_loop(readers, return_on_fail, 1, <<>>)

\* inputs: a file for which each reader raises one of three exceptions or returns
\* its own array (pydicom and raw bytes the stored integers, SimpleITK floats)
ReaderExcSet == {"AttributeError", "ValueError", "RuntimeError"}
ReaderArray(i) ==
    IF i = 2 THEN Image("float64", <<Px(QInt(1)), Px(QInt(2))>>)
    ELSE IF i = 1 THEN Pixels(<<1, 2>>)
    ELSE Image("uint8", <<Px(QInt(1)), Px(QInt(2))>>)
ReaderOutcomes(i) == {ReaderRaises(e) : e \in ReaderExcSet} \cup {ReaderReturns(ReaderArray(i))}
FileSet ==
    {<<a, b, c>> : a \in ReaderOutcomes(1), b \in ReaderOutcomes(2), c \in ReaderOutcomes(3)}
ReturnOnFailSet == {None, Some(Pixels(<<0>>))}

ReadPixelCall(readers, return_on_fail) ==
    [op |-> "read_pixel", readers |-> readers, return_on_fail |-> return_on_fail]

InitRead ==
    /\ ReconIdle
    /\ RegistryIdle
    /\ TransIdle
    /\ fn_result = NotRun
    /\ \E readers \in FileSet :
       \E return_on_fail \in ReturnOnFailSet :
          fn_call = ReadPixelCall(readers, return_on_fail)

ReadPixel ==
    /\ fn_call # NotRun
    /\ fn_result = NotRun
    /\ fn_call.op = "read_pixel"
    /\ fn_result' = read_pixel(fn_call.readers, fn_call.return_on_fail)
    /\ UNCHANGED <<fn_call, recon_vars, registry_vars, trans_vars>>

NextRead == ReadPixel

SpecRead == InitRead /\ [][NextRead]_vars

\* the readers before reader i all raise for the file of the call
RaisedBefore(i) == \A j \in 1..(i - 1) : fn_call.readers[j].raised
AllRaise == RaisedBefore(Len(Readers) + 1)

\* C24: read_pixel always returns. For the first reader, in the order pydicom,
\* SimpleITK, raw bytes, that does not raise it returns that reader's array, having
\* invoked exactly the readers up to it; it returns return_on_fail exactly when all
\* three readers raise.
C24_FirstReaderThatReturns ==
    Called("read_pixel") =>
        /\ Returned(fn_result)
        /\ fn_result.on_fail <=> AllRaise
        /\ fn_result.on_fail =>
              /\ fn_result.value = fn_call.return_on_fail
              /\ fn_result.invoked = Readers
        /\ \A i \in DOMAIN Readers :
              (RaisedBefore(i) /\ ~fn_call.readers[i].raised) =>
                  /\ fn_result.value = Some(fn_call.readers[i].img_arr)
                  /\ fn_result.invoked = SubSeq(Readers, 1, i)
                  /\ Len(fn_result.logged) = i - 1

\* pydicom raises, SimpleITK returns its array although raw bytes would return too
C24_Witness ==
    /\ Called("read_pixel")
    /\ fn_call.readers[1].raised
    /\ ~fn_call.readers[2].raised
    /\ ~fn_call.readers[3].raised
    /\ fn_result.value = Some(ReaderArray(2))
    /\ fn_result.invoked = <<"read_pixel_pydicom", "read_pixel_sitk">>

\* ---------------------------------------------------------------------------
\* _recon_ct: the leading-slice discard, the geometry check, the orientation class
\* ---------------------------------------------------------------------------

FirstIop == RecOf(Sorted[1]).ImageOrientationPatient
SecondIop == RecOf(Sorted[2]).ImageOrientationPatient
RowOf(iop) == SubSeq(iop, 1, 3)
ColOf(iop) == SubSeq(iop, 4, 6)

\* the cross term of the orientations of the first two instances is below 0.1
NearDegenerate ==
    10 * Abs(Dot(RowOf(FirstIop), RowOf(SecondIop)) * Dot(ColOf(FirstIop), ColOf(SecondIop))
             - Dot(RowOf(FirstIop), ColOf(SecondIop)) * Dot(ColOf(FirstIop), RowOf(SecondIop))) < 1
Kept == IF NearDegenerate THEN Tail(Sorted) ELSE Sorted

\* C25: in a successful CT reconstruction the first instance is discarded iff the cross
\* term of the orientations of the first two instances is below 0.1 in magnitude: the
\* index list is then the sorted indices without the first, otherwise all of them, and
\* the index-to-key map and the index-to-record map have exactly the indices of the
\* index list, each with the key and the record of that instance. In every successful
\* result the three have the same indices and the index list is ascending.
C25_LeadingSliceDiscard ==
    /\ (Done /\ Ok) =>
          /\ DOMAIN rec_out.index_map = Range(rec_out.index_list)
          /\ DOMAIN rec_out.index_dicom_dict = Range(rec_out.index_list)
          /\ \A k \in 1..(Len(rec_out.index_list) - 1) :
                rec_out.index_list[k] < rec_out.index_list[k + 1]
    /\ (Done /\ Ok /\ CTEntered) =>
        /\ rec_out.index_list = Kept
        /\ DOMAIN rec_out.index_map = Range(Kept)
        /\ DOMAIN rec_out.index_dicom_dict = Range(Kept)
        /\ \A i \in Range(Kept) :
              /\ dicom_dict[rec_out.index_map[i]].InstanceNumber = Some(i)
              /\ rec_out.index_dicom_dict[i] = RecOf(i)

\* a series of three whose first instance was discarded
C25_Witness ==
    /\ Done /\ Ok /\ CTEntered
    /\ NearDegenerate
    /\ Len(Sorted) = 3
    /\ rec_out.index_list = Tail(Sorted)
    /\ Sorted[1] \notin DOMAIN rec_out.index_dicom_dict

\* the instances that remain after the discard share rows, columns and the pixel
\* spacing rounded to 0.001 mm
KeptGeometryAgrees ==
    \A i, j \in Range(Kept) :
        /\ RecOf(i).Rows = RecOf(j).Rows
        /\ RecOf(i).Columns = RecOf(j).Columns
        /\ round_half_even(RecOf(i).PixelSpacing[1], 10)
             = round_half_even(RecOf(j).PixelSpacing[1], 10)
        /\ round_half_even(RecOf(i).PixelSpacing[2], 10)
             = round_half_even(RecOf(j).PixelSpacing[2], 10)
GeometryError ==
    /\ rec_out.status = "AssertionError"
    /\ rec_out.msg \in {Msg("Columns of images mismatch"), Msg("Rows of images mismatch"),
                        Msg("PixelSpacing of columns mismatch")}

\* C26: once the first two orientations are read, CT reconstruction raises the
\* geometry error iff the instances remaining after the leading-slice discard do not
\* all share rows, columns and pixel spacing rounded to 0.001 mm; the geometry of a
\* discarded first instance does not count, and an index jump or a misalignment
\* among the remaining instances does not take its place.
C26_GeometryOfRemaining ==
    (Done /\ CTEntered /\ First2Iop) => (GeometryError <=> ~KeptGeometryAgrees)

\* the discarded first instance alone has another geometry: no geometry error
C26_Witness ==
    /\ Done /\ CTEntered /\ First2Iop
    /\ NearDegenerate
    /\ RecOf(Sorted[1]).Rows # RecOf(Sorted[2]).Rows
    /\ KeptGeometryAgrees
    /\ Ok

\* both the row and the column vector of iop are within 0.1 of the plane with the
\* normal n
InPlane(iop, n) == 10 * Abs(Dot(RowOf(iop), n)) < 1 /\ 10 * Abs(Dot(ColOf(iop), n)) < 1
KeptIop == RecOf(Kept[1]).ImageOrientationPatient
ClassOf(iop) ==
    IF InPlane(iop, <<0, 0, 1>>) THEN "axial"
    ELSE IF InPlane(iop, <<0, 1, 0>>) THEN "coronal"
    ELSE IF InPlane(iop, <<1, 0, 0>>) THEN "sagittal"
    ELSE "other"

\* C27: the orientation class of a successful CT reconstruction is the first of axial
\* (0,0,1), coronal (0,1,0), sagittal (1,0,0) whose normal has a dot product below 0.1
\* in magnitude with both the row and the column vector of the first remaining
\* instance's orientation, and other if there is none.
C27_OrientationClass ==
    (Done /\ Ok /\ CTEntered) =>
        /\ rec_out.series_like = Some(ClassOf(KeptIop))
        /\ Val(rec_out.series_like) \in {"axial", "coronal", "sagittal", "other"}

\* an orientation in the coronal and in the sagittal plane is classed coronal
C27_Witness ==
    /\ Done /\ Ok /\ CTEntered
    /\ ~InPlane(KeptIop, <<0, 0, 1>>)
    /\ InPlane(KeptIop, <<0, 1, 0>>)
    /\ InPlane(KeptIop, <<1, 0, 0>>)
    /\ rec_out.series_like = Some("coronal")

\* ---------------------------------------------------------------------------
\* BaseTransManager: the key sets of the three tables and modes()
\* ---------------------------------------------------------------------------

Keys(table) == {m \in DOMAIN table : ~IsNone(table[m])}
Ascending(s) == \A i, j \in DOMAIN s : i < j => StrRank(s[i]) < StrRank(s[j])

\* C29: at any time the handler table, the retired table and the experimental table
\* of a registry have the same keys; modes() returns exactly these keys, ascending
\* and without duplicates; no step removes a registered mode.
C29_KeysAndModes ==
    /\ [](/\ Keys(collection) = Keys(retired)
          /\ Keys(collection) = Keys(experimental)
          /\ reg_call.op = "modes" =>
                /\ Range(reg_call.result) = Keys(collection)
                /\ Len(reg_call.result) = Cardinality(Keys(collection))
                /\ Ascending(reg_call.result))
    /\ [][Keys(collection) \subseteq Keys(collection')]_vars

\* modes() after both modes were registered, the second one twice
C29_Witness ==
    /\ reg_call.op = "modes"
    /\ reg_call.result = <<"MONOCHROME1", "YBR_ICT">>
    /\ retired["YBR_ICT"] = Some(TRUE)
    /\ experimental["MONOCHROME1"] = Some(TRUE)

\* ---------------------------------------------------------------------------
\* The handlers the pipeline of dcmtrans.py applies and the handlers registered
\* ---------------------------------------------------------------------------

\* the tables of the three module-level registries after import: each register
\* decorator of modality_trans.py, voi_trans.py and pi_trans.py
modality_collection ==
    ("LINEAR" :> Some("modality_linear_trans")) @@ ("TABLE" :> Some("modality_lut_trans"))
voi_collection ==
    ("LINEAR" :> Some("voi_linear_trans")) @@ ("LINEAR_EXACT" :> Some("voi_linear_exact_trans"))
      @@ ("SIGMOID" :> Some("voi_sigmoid_trans")) @@ ("TABLE" :> Some("voi_lut_trans"))
pi_collection ==
    ("MONOCHROME1" :> Some("pi_monochrome1")) @@ ("MONOCHROME2" :> Some("pi_monochrome2"))
      @@ ("RGB" :> Some("pi_rgb")) @@ ("YBR_FULL" :> Some("pi_ybr_full"))
      @@ ("YBR_FULL_422" :> Some("pi_ybr_full_422"))
      @@ ("YBR_PARTIAL_420" :> Some("pi_ybr_partial_420"))
      @@ ("YBR_ICT" :> Some("pi_ybr_ict")) @@ ("YBR_RCT" :> Some("pi_ybr_rct"))
pi_retired == [m \in DOMAIN pi_collection |-> Some(FALSE)]
pi_experimental ==
    [m \in DOMAIN pi_collection |-> Some(m \in {"YBR_PARTIAL_420", "YBR_ICT", "YBR_RCT"})]

\* what BaseTransManager.get_func returns for a record of the mode
registered_func(coll, mode) == <<mode, TableGet(coll, mode)>>

\* inputs: records of every modality and VOI mode, and of registered and unregistered
\* photometric codes; a grey image and a colour image of one pixel
DispatchPISet ==
    {None, Some("MONOCHROME1"), Some("MONOCHROME2"), Some("RGB"), Some("PALETTE COLOR"),
     Some("YBR_FULL"), Some("YBR_FULL_422"), Some("YBR_PARTIAL_420"), Some("YBR_ICT"),
     Some("YBR_RCT")}
ColourImage(R, G, B) == Image("int16", <<ybr_rct_of(<<R, G, B>>)>>)
PlainVOI == VOIAttrs(None, None, None, None, Some(8))

DispatchCall(op, dcmObj, image) ==
    [op |-> op, dcmObj |-> dcmObj, image |-> image, depth |-> DEPTH]

InitDispatch ==
    /\ ReconIdle
    /\ RegistryIdle
    /\ TransIdle
    /\ fn_result = NotRun
    /\ \/ \E m \in ModalityAttrSet :
             fn_call = DispatchCall("get_modality_trans_func",
                                    DcmObj(m, PlainVOI, None, Some(0)), StageImage)
       \/ \E v \in VOIAttrSet :
             fn_call = DispatchCall("get_voi_trans_func",
                                    DcmObj(PlainModality, v, None, Some(0)), StageImage)
       \/ \E pi \in DispatchPISet, op \in {"get_pi_trans_func", "pi_trans"} :
          \E image \in {StageImage, ColourImage(1, 2, 0), ColourImage(0, 0, 1), ColourImage(2, 1, 1)} :
             /\ pi \in {Some("MONOCHROME1"), Some("MONOCHROME2")} <=> image = StageImage
             /\ fn_call = DispatchCall(op, DcmObj(PlainModality, PlainVOI, pi, Some(0)), image)

GetModalityTransFunc ==
    /\ fn_call # NotRun
    /\ fn_result = NotRun
    /\ fn_call.op = "get_modality_trans_func"
    /\ fn_result' = [status |-> "ok", func |-> get_modality_trans_func(fn_call.dcmObj)]
    /\ UNCHANGED <<fn_call, recon_vars, registry_vars, trans_vars>>

GetVoiTransFunc ==
    /\ fn_call # NotRun
    /\ fn_result = NotRun
    /\ fn_call.op = "get_voi_trans_func"
    /\ fn_result' = [status |-> "ok", func |-> get_voi_trans_func(fn_call.dcmObj)]
    /\ UNCHANGED <<fn_call, recon_vars, registry_vars, trans_vars>>

GetPiTransFunc ==
    /\ fn_call # NotRun
    /\ fn_result = NotRun
    /\ fn_call.op = "get_pi_trans_func"
    /\ fn_result' = [status |-> "ok", func |-> get_pi_trans_func(fn_call.dcmObj)]
    /\ UNCHANGED <<fn_call, recon_vars, registry_vars, trans_vars>>

PiTrans ==
    /\ fn_call # NotRun
    /\ fn_result = NotRun
    /\ fn_call.op = "pi_trans"
    /\ fn_result' = pi_trans(fn_call.dcmObj, fn_call.image, fn_call.depth)
    /\ UNCHANGED <<fn_call, recon_vars, registry_vars, trans_vars>>

NextDispatch == GetModalityTransFunc \/ GetVoiTransFunc \/ GetPiTransFunc \/ PiTrans

SpecDispatch == InitDispatch /\ [][NextDispatch]_vars

\* C28: the handler the pipeline resolves for a record at the modality, the VOI and
\* the PI stage is the handler the registry of that stage holds for the record's mode,
\* and the PI stage of the pipeline converts a YBR_RCT record with pi_ybr_rct.
C28_PipelineUsesRegistry ==
    /\ Called("get_modality_trans_func") =>
          fn_result.func = registered_func(modality_collection,
                                           modality_classifier(fn_call.dcmObj))
    /\ Called("get_voi_trans_func") =>
          fn_result.func = registered_func(voi_collection, voi_classifier(fn_call.dcmObj))
    /\ Called("get_pi_trans_func") =>
          fn_result.func = get_func(pi_collection, pi_retired, pi_experimental,
                                    fn_call.dcmObj).result
    /\ (Called("pi_trans") /\ fn_call.dcmObj.PhotometricInterpretation = Some("YBR_RCT")) =>
          fn_result.image = pi_ybr_rct(fn_call.dcmObj, fn_call.image, fn_call.depth).image

====
